---- MODULE Spec2Model ----
(***************************************************************************)
(* Model of the nebulizer granular synthesiser: the Emitter (message       *)
(* inbox, note pool, per-note grains, termination flag) pulled by the      *)
(* audio thread, and the control plane that sends it messages.             *)
(*                                                                         *)
(* Durations are Rust Durations, records [secs, nanos].  Samples and       *)
(* amplitudes are fixed-point integers, Unit standing for 1.0.  Relative   *)
(* positions in the clip are fixed-point integers, PosUnit standing for    *)
(* 1.0.  The rodio adaptors wrapped around a grain (Speed,                 *)
(* UniformSourceIterator) belong to an external library and are taken to   *)
(* pass one inner sample through per pull.                                 *)
(***************************************************************************)
EXTENDS Integers, Sequences, FiniteSets, TLC

\* ------------------------------------------------------------------------
\* Bounds of the model
\* ------------------------------------------------------------------------
MaxQueue == 2          \* messages in flight in the channel
MaxNoteOns == 2        \* NoteOn messages the control plane sends in a run
MaxSends == 4          \* messages the control plane sends in a run
MaxHeldSteps == 3      \* production steps a note is followed in Held
MaxPulls == 5          \* pulls a grain on its own is followed for
MaxLoads == 3          \* emitters the application starts in a run
MaxInbox == 2          \* messages waiting in the inbox of one of them
MaxMappings == 2       \* entries of the MIDI CC table
MaxUpdates == 14       \* steps a note on its own is followed for

\* ------------------------------------------------------------------------
\* Program constants
\* ------------------------------------------------------------------------
NANOS_PER_SEC == 1000000000
Unit == 100            \* fixed-point 1.0 of a sample or an amplitude
PosUnit == 1000        \* fixed-point 1.0 of a relative clip position
NaN == 0 - 1000000     \* the f32 not-a-number (0.0 / 0.0)
MIDDLE_C == 60
NoteTimerStartSecs == 100

Keys == {60, 72}

\* the values of EmitterParams.polyphony tried
PolyphonyValues == {1}

\* ------------------------------------------------------------------------
\* std::time::Duration
\* ------------------------------------------------------------------------
Dur(s, n) == [secs |-> s, nanos |-> n]

DurZero == Dur(0, 0)

DurMillis(ms) == Dur(ms \div 1000, (ms % 1000) * 1000000)

DurAdd(a, b) ==
    LET n == a.nanos + b.nanos IN
    IF n >= NANOS_PER_SEC
    THEN Dur(a.secs + b.secs + 1, n - NANOS_PER_SEC)
    ELSE Dur(a.secs + b.secs, n)

DurGE(a, b) == a.secs > b.secs \/ (a.secs = b.secs /\ a.nanos >= b.nanos)

DurGT(a, b) == a.secs > b.secs \/ (a.secs = b.secs /\ a.nanos > b.nanos)

DurLE(a, b) == DurGE(b, a)

\* a - b for a >= b
DurSub(a, b) ==
    IF a.nanos >= b.nanos
    THEN Dur(a.secs - b.secs, a.nanos - b.nanos)
    ELSE Dur(a.secs - b.secs - 1, a.nanos + NANOS_PER_SEC - b.nanos)

\* whole microseconds of a duration (as_secs_f32 at the model's resolution)
DurMicros(d) == d.secs * 1000000 + d.nanos \div 1000

RECURSIVE DurTimes(_, _)
DurTimes(d, k) == IF k = 0 THEN DurZero ELSE DurAdd(d, DurTimes(d, k - 1))

\* ------------------------------------------------------------------------
\* AudioClip
\* ------------------------------------------------------------------------
\* a 100 Hz mono clip of two samples
TheClip == [data |-> <<50, 0 - 80>>, channels |-> 1, sample_rate |-> 100]

\* a 100 Hz stereo clip of one frame
StereoClip == [data |-> <<50, 0 - 80>>, channels |-> 2, sample_rate |-> 100]

\* a 100 Hz mono clip of four samples
LongClip == [data |-> <<50, 0 - 80, 30, 10>>, channels |-> 1, sample_rate |-> 100]

\* duration_per_sample with the quotient rounded to the nearest nanosecond
duration_per_sample_nearest(clip) ==
    LET n  == clip.sample_rate * clip.channels
        ns == (NANOS_PER_SEC + n \div 2) \div n
    IN  [secs |-> ns \div NANOS_PER_SEC, nanos |-> ns % NANOS_PER_SEC]

\* Duration::new(0, ns) carries a full second of nanoseconds over
duration_per_sample(clip) ==
    LET ns == NANOS_PER_SEC \div (clip.sample_rate * clip.channels)
    IN  [secs |-> ns \div NANOS_PER_SEC, nanos |-> ns % NANOS_PER_SEC]

total_duration(clip) ==
    LET d == duration_per_sample(clip) IN
    DurTimes(d, Len(clip.data))

\* ------------------------------------------------------------------------
\* Fixed-point f32 arithmetic on samples and amplitudes
\* ------------------------------------------------------------------------
\* Sample::amplify: s * f
amplify(s, f) == IF s = NaN \/ f = NaN THEN NaN ELSE (s * f) \div Unit

\* Sample::saturating_add on f32: a + b
saturating_add(a, b) == IF a = NaN \/ b = NaN THEN NaN ELSE a + b

\* emath::lerp(a..=b, num / den)
lerp(a, b, num, den) == a + ((b - a) * num) \div den

Abs(x) == IF x < 0 THEN 0 - x ELSE x

\* f32::tanh, by its Pade approximant x (15 + x^2) / (15 + 6 x^2), which is
\* odd and increasing, clamped to [-1, 1]
tanh(x) ==
    IF x = NaN THEN NaN
    ELSE LET a == IF Abs(x) > 3 * Unit THEN 3 * Unit ELSE Abs(x)
             t == (a * (15 * Unit * Unit + a * a)) \div (15 * Unit * Unit + 6 * a * a)
             c == IF t > Unit THEN Unit ELSE t
         IN  IF x < 0 THEN 0 - c ELSE c

\* ------------------------------------------------------------------------
\* Envelopes
\* ------------------------------------------------------------------------
Adsr(a, d, s, r) == [attack |-> a, decay |-> d, sustain_level |-> s, release |-> r]

AdsrEnvelope_default == Adsr(DurZero, DurMillis(1000), Unit, DurMillis(15))

held_amplitude(env, held_for) ==
    IF DurLE(held_for, env.attack)
    THEN IF DurMicros(env.attack) = 0
         THEN NaN
         ELSE lerp(0, Unit, DurMicros(held_for), DurMicros(env.attack))
    ELSE IF DurLE(held_for, DurAdd(env.attack, env.decay))
    THEN lerp(Unit, env.sustain_level,
              DurMicros(DurSub(held_for, env.attack)), DurMicros(env.decay))
    ELSE env.sustain_level

released_amplitude(env, since_released) ==
    IF DurGT(since_released, env.release)
    THEN 0
    ELSE IF DurMicros(env.release) = 0
    THEN NaN
    ELSE lerp(env.sustain_level, 0, DurMicros(since_released), DurMicros(env.release))

oneshot_amplitude(env, since_triggered) ==
    LET attack_decay == DurAdd(env.attack, env.decay)
    IN  IF DurLE(since_triggered, attack_decay)
        THEN held_amplitude(env, since_triggered)
        ELSE released_amplitude(env, DurSub(since_triggered, attack_decay))

\* sin^2(pi x / w) for 0 <= x <= w, by Bhaskara's approximation of the sine;
\* this is 0.5 (1 - cos(2 pi x / w)), the raised-cosine taper
RaisedCosine(x, w) ==
    LET p == x * (w - x)
        s == (16 * p * Unit) \div (5 * w * w - 4 * p)
    IN  (s * s) \div Unit

\* x, length, radius and skew in PosUnit; the result in Unit
tukey_window(x, length, radius, skew) ==
    LET sk == IF skew < 0 - PosUnit THEN 0 - PosUnit
              ELSE IF skew > PosUnit THEN PosUnit ELSE skew
        b  == (sk * radius) \div PosUnit
        wi == radius + b
        wo == radius - b
    IN  IF x < 0 \/ x > length THEN 0
        ELSE IF 2 * x < wi THEN RaisedCosine(x, wi)
        ELSE IF 2 * x < 2 * length - wo THEN Unit
        ELSE IF wo = 0 THEN NaN
        ELSE RaisedCosine(x - length + wo, wo)

amplitude_at(genv, x) == tukey_window(x, PosUnit, genv.amount, genv.skew)

\* ------------------------------------------------------------------------
\* Grain
\* ------------------------------------------------------------------------
\* d.mul_f32(1.0 / speed), speed in PosUnit
DurDivSpeed(d, speed) ==
    LET m == (DurMicros(d) * PosUnit) \div speed
    IN  Dur(m \div 1000000, (m % 1000000) * 1000)

RECURSIVE Pow2(_)
Pow2(k) == IF k = 0 THEN 1 ELSE 2 * Pow2(k - 1)

\* The f32 arithmetic of the spray and of the start of a grain, in floating
\* point: a value is kept to SignificandBits significant bits (f32 keeps 24),
\* so that a term much smaller than the other is lost in a sum and a large
\* whole number is moved to a neighbour, as they are in f32; the spray is
\* counted in FineUnit-ths
FineUnit == 65536

SignificandBits == 8

RECURSIVE Ilog2(_)
Ilog2(v) == IF v < 2 THEN 0 ELSE 1 + Ilog2(v \div 2)

\* the distance between the neighbours of v among the values of the format
Spacing(v) ==
    LET e == Ilog2(Abs(v))
    IN  IF e < SignificandBits THEN 1 ELSE Pow2(e - (SignificandBits - 1))

\* num / den rounded to the nearest value of the format, a tie to the even one
round_even(num, den) ==
    LET sp   == Spacing(num \div den)
        unit == sp * den
        lo   == num \div unit
        rem  == num % unit
    IN  IF 2 * rem < unit \/ (2 * rem = unit /\ lo % 2 = 0)
        THEN lo * sp
        ELSE (lo + 1) * sp

\* `(samples_per_channel as f32 * start_position) as usize` for a position
\* from 0 on: the count of frames is rounded to the format, and so is the
\* product once the values of the format around it are whole numbers; the
\* rounding of a smaller product, a fraction of a frame, is not modelled
start_frame(samples_per_channel, start_position) ==
    LET num == round_even(samples_per_channel, 1) * start_position
    IN  IF num \div PosUnit < Pow2(SignificandBits - 1)
        THEN num \div PosUnit
        ELSE round_even(num, PosUnit)

Grain_new(clip, start_position, length, speed, amplitude, envelope) ==
    LET samples_per_channel == Len(clip.data) \div clip.channels
        \* `as usize` of a negative f32 is 0
        frame == IF start_position < 0 THEN 0
                 ELSE start_frame(samples_per_channel, start_position)
        index == frame * clip.channels
    IN  [ index               |-> index,
          start_position      |-> start_position,
          amplitude           |-> amplitude,
          envelope            |-> envelope,
          total_duration      |-> DurDivSpeed(length, speed),
          elapsed_duration    |-> DurZero,
          duration_per_sample |-> DurDivSpeed(duration_per_sample(clip), speed) ]

\* GrainInner::next that reads the last sample again once the clip has ended
GrainInner_next_unchecked(clip, g) ==
    LET last == Len(clip.data)
    IN  [ grain  |-> [g EXCEPT !.index = g.index + 1],
          some   |-> TRUE,
          sample |-> clip.data[IF g.index < last THEN g.index + 1 ELSE last] ]

\* GrainInner::next: the sample under the cursor, if any; the cursor moves on
GrainInner_next(clip, g) ==
    [ grain  |-> [g EXCEPT !.index = g.index + 1],
      some   |-> g.index < Len(clip.data),
      sample |-> IF g.index < Len(clip.data) THEN clip.data[g.index + 1] ELSE 0 ]

\* Grain::next that counts the time of the samples it has got only
Grain_next_stalled(clip, g) ==
    IF DurGE(g.elapsed_duration, g.total_duration)
    THEN [grain |-> g, some |-> FALSE, sample |-> 0]
    ELSE LET factor == amplitude_at(g.envelope,
                          (DurMicros(g.elapsed_duration) * PosUnit)
                              \div DurMicros(g.total_duration))
             in == GrainInner_next(clip, g)
         IN  [ grain  |-> IF in.some
                          THEN [in.grain EXCEPT !.elapsed_duration =
                                   DurAdd(g.elapsed_duration, g.duration_per_sample)]
                          ELSE in.grain,
               some   |-> in.some,
               sample |-> IF in.some
                          THEN amplify(amplify(in.sample, g.amplitude), factor)
                          ELSE 0 ]

\* Grain::next
Grain_next(clip, g) ==
    IF DurGE(g.elapsed_duration, g.total_duration)
    THEN [grain |-> g, some |-> FALSE, sample |-> 0]
    ELSE LET factor == amplitude_at(g.envelope,
                          (DurMicros(g.elapsed_duration) * PosUnit)
                              \div DurMicros(g.total_duration))
             in == GrainInner_next(clip, g)
         IN  [ grain  |-> [in.grain EXCEPT !.elapsed_duration =
                              DurAdd(g.elapsed_duration, g.duration_per_sample)],
               some   |-> in.some,
               sample |-> IF in.some
                          THEN amplify(amplify(in.sample, g.amplitude), factor)
                          ELSE 0 ]

\* ------------------------------------------------------------------------
\* EmitterSettings
\* ------------------------------------------------------------------------
EmitterSettings_default ==
    [ key_mode       |-> "Pitch",
      num_slices     |-> 12,
      position       |-> 0,
      spray          |-> DurZero,
      length         |-> DurMillis(100),
      density        |-> 10,
      grain_envelope |-> [amount |-> PosUnit \div 2, skew |-> 0],
      note_envelope  |-> AdsrEnvelope_default,
      transpose      |-> 0,
      amplitude      |-> Unit ]

\* short grains spawned often, a slow attack, a release of 25 ms
SettingsShort ==
    [ EmitterSettings_default EXCEPT
        !.length = DurMillis(15),
        !.density = 80,
        !.grain_envelope = [amount |-> 0, skew |-> 0],
        !.note_envelope = Adsr(DurMillis(10), DurMillis(10), Unit \div 2, DurMillis(25)),
        !.amplitude = Unit \div 2 ]

\* slice mode, grains of no length, an immediate release
SettingsSlice ==
    [ EmitterSettings_default EXCEPT
        !.key_mode = "Slice",
        !.num_slices = 3,
        !.length = DurZero,
        !.note_envelope = Adsr(DurZero, DurZero, Unit, DurZero),
        !.transpose = 12 ]

SettingsValues == {EmitterSettings_default, SettingsShort, SettingsSlice}

\* draws of the random number generator, as fractions of PosUnit in [0, 1)
RandValues == {0, PosUnit \div 2}

\* ------------------------------------------------------------------------
\* Note
\* ------------------------------------------------------------------------
\* (Note_new_cold is Note::new with a spawn timer that starts at zero)
\* id, since_off and spawned are not fields of the program's Note: id numbers
\* the notes in the order of their creation, to tell them apart in the
\* properties; since_off is the time the note has been updated for in the
\* Released state, whatever happened to its state's own timer; spawned counts
\* the grains made for the note
Note_new_cold(key, envelope, id) ==
    [ id               |-> id,
      key              |-> key,
      envelope         |-> envelope,
      state            |-> "Held",
      time             |-> DurZero,
      grains           |-> <<>>,
      since_last_grain |-> DurZero,
      since_off        |-> DurZero,
      spawned          |-> 0 ]

Note_new(key, envelope, id) ==
    [ id               |-> id,
      key              |-> key,
      envelope         |-> envelope,
      state            |-> "Held",
      time             |-> DurZero,
      grains           |-> <<>>,
      since_last_grain |-> Dur(NoteTimerStartSecs, 0),
      since_off        |-> DurZero,
      spawned          |-> 0 ]

Note_update(note, delta_time) ==
    LET n == [note EXCEPT !.since_last_grain = DurAdd(note.since_last_grain, delta_time)]
        new_time == DurAdd(note.time, delta_time)
    IN  CASE note.state = "Held" -> [n EXCEPT !.time = new_time]
          [] note.state = "Released" ->
                IF DurGE(new_time, note.envelope.release)
                THEN [n EXCEPT !.state = "Finished", !.time = DurZero,
                               !.since_off = DurAdd(note.since_off, delta_time)]
                ELSE [n EXCEPT !.time = new_time,
                               !.since_off = DurAdd(note.since_off, delta_time)]
          [] OTHER -> n

Note_amplitude(note) ==
    CASE note.state = "Held" -> held_amplitude(note.envelope, note.time)
      [] note.state = "Released" -> released_amplitude(note.envelope, note.time)
      [] OTHER -> 0

\* ------------------------------------------------------------------------
\* Emitter
\* ------------------------------------------------------------------------
SemitoneRatio == <<1000, 1059, 1122, 1189, 1260, 1335, 1414, 1498, 1587, 1682, 1782, 1888>>

\* 2^(semitones / 12), in PosUnit
interval_to_ratio(semitones) ==
    LET oct == semitones \div 12
        r   == SemitoneRatio[(semitones % 12) + 1]
    IN  IF oct >= 0 THEN r * Pow2(oct) ELSE r \div Pow2(0 - oct)

Max(a, b) == IF a >= b THEN a ELSE b

Min(a, b) == IF a <= b THEN a ELSE b

\* the value of the format nearest to v
RoundF32(v) ==
    LET sp == Spacing(v)
        q  == ((Abs(v) + sp \div 2) \div sp) * sp
    IN  IF v < 0 THEN 0 - q ELSE q

\* spray_range without the clamping of its bounds to [0, 1]
spray_range_unclamped(settings, clip, pos) ==
    LET p == RoundF32((pos * FineUnit) \div PosUnit)
        spray_relative ==
            RoundF32((DurMicros(settings.spray) * FineUnit)
                         \div DurMicros(total_duration(clip)))
        half == spray_relative \div 2
    IN  [ min |-> RoundF32(p - half),
          max |-> RoundF32(p + half) ]

\* the bounds of the range the start position is drawn from when the spray
\* is positive, in FineUnit; pos is in PosUnit
spray_range(settings, clip, pos) ==
    LET p == RoundF32((pos * FineUnit) \div PosUnit)
        spray_relative ==
            RoundF32((DurMicros(settings.spray) * FineUnit)
                         \div DurMicros(total_duration(clip)))
        \* values below 1 / FineUnit are not kept: the sprays tried are above
        half == spray_relative \div 2
    IN  [ min |-> Max(RoundF32(p - half), 0),
          max |-> Min(RoundF32(p + half), FineUnit) ]

\* rng.gen_range(min..max) for the draw rnd of the generator: it panics on
\* an empty range
gen_range(range, rnd) ==
    IF range.min >= range.max
    THEN [panicked |-> TRUE, v |-> 0]
    ELSE [panicked |-> FALSE,
          v |-> RoundF32(range.min + (rnd * (range.max - range.min)) \div PosUnit)]

\* grain_position that cuts the clip in 128 slices whatever num_slices is
grain_position_unsliced(settings, note) ==
    IF settings.key_mode = "Pitch"
    THEN settings.position
    ELSE (note.key * PosUnit) \div 128

\* the position a note's key and the settings give, before the spray
grain_position(settings, note) ==
    IF settings.key_mode = "Pitch"
    THEN settings.position
    ELSE LET slice == note.key % settings.num_slices
         IN  (slice * PosUnit) \div settings.num_slices

\* the start position of a new grain: [panicked, v], v in PosUnit
grain_start(settings, clip, note, rnd) ==
    LET pos == grain_position(settings, note)
    IN  IF DurGT(settings.spray, DurZero)
        THEN LET r == gen_range(spray_range(settings, clip, pos), rnd)
             IN  [panicked |-> r.panicked, v |-> (r.v * PosUnit) \div FineUnit]
        ELSE [panicked |-> FALSE, v |-> pos]

\* make_grain panics: the range of the spray is empty
make_grain_panics(settings, clip, note, rnd) ==
    grain_start(settings, clip, note, rnd).panicked

\* make_grain that leaves the transposition out of the speed of a pitched grain
make_grain_untransposed(settings, clip, note, rnd) ==
    LET speed == IF settings.key_mode = "Pitch"
                 THEN interval_to_ratio(note.key - MIDDLE_C)
                 ELSE interval_to_ratio(settings.transpose)
    IN  Grain_new(clip, grain_start(settings, clip, note, rnd).v, settings.length,
                  speed, Unit, settings.grain_envelope)

\* make_grain that pitches the grains by the key in both key modes
make_grain_keyed(settings, clip, note, rnd) ==
    LET start == grain_start(settings, clip, note, rnd).v
        speed == interval_to_ratio((note.key + settings.transpose) - MIDDLE_C)
    IN  Grain_new(clip, start, settings.length, speed, Unit, settings.grain_envelope)

\* rnd is the draw of the random number generator
make_grain(settings, clip, note, rnd) ==
    LET start == grain_start(settings, clip, note, rnd).v
        speed == IF settings.key_mode = "Pitch"
                 THEN interval_to_ratio((note.key + settings.transpose) - MIDDLE_C)
                 ELSE interval_to_ratio(settings.transpose)
    IN  Grain_new(clip, start, settings.length, speed, Unit, settings.grain_envelope)

\* grain_interval that takes the density for grains per millisecond
grain_interval_hasty(settings) ==
    LET ns == NANOS_PER_SEC \div (settings.density * 1000)
    IN  Dur(ns \div NANOS_PER_SEC, ns % NANOS_PER_SEC)

grain_interval(settings) ==
    LET ns == NANOS_PER_SEC \div settings.density
    IN  Dur(ns \div NANOS_PER_SEC, ns % NANOS_PER_SEC)

NoteOnMsg(k) == [type |-> "NoteOn", key |-> k, settings |-> EmitterSettings_default]

NoteOffMsg(k) == [type |-> "NoteOff", key |-> k, settings |-> EmitterSettings_default]

SettingsMsg(s) == [type |-> "Settings", key |-> 0, settings |-> s]

TerminateMsg == [type |-> "Terminate", key |-> 0, settings |-> EmitterSettings_default]

\* e is the Emitter: [settings, notes, terminated, created]
\* the NoteOn arm of handle_message
note_on(e, key) ==
    [e EXCEPT !.notes = Append(e.notes,
                               Note_new(key, e.settings.note_envelope, e.created + 1)),
              !.created = e.created + 1]

\* note_off that stops at the first note of the key
note_off_first(e, key) ==
    [e EXCEPT !.notes =
        [i \in DOMAIN e.notes |->
            IF e.notes[i].key = key /\ \A j \in 1..(i - 1) : e.notes[j].key # key
            THEN [e.notes[i] EXCEPT !.state = "Released", !.time = DurZero]
            ELSE e.notes[i]]]

\* the NoteOff arm of handle_message
note_off(e, key) ==
    [e EXCEPT !.notes =
        [i \in DOMAIN e.notes |->
            IF e.notes[i].key = key
            THEN [e.notes[i] EXCEPT !.state = "Released", !.time = DurZero]
            ELSE e.notes[i]]]

\* handle_message with a NoteOn that revives a terminated emitter
handle_message_rearm(e, msg) ==
    CASE msg.type = "Settings" -> [e EXCEPT !.settings = msg.settings]
      [] msg.type = "NoteOn" -> [note_on(e, msg.key) EXCEPT !.terminated = FALSE]
      [] msg.type = "NoteOff" -> note_off(e, msg.key)
      [] msg.type = "Terminate" -> [e EXCEPT !.terminated = TRUE]
      [] OTHER -> e

\* handle_message with a NoteOn that also holds again the notes of its key
handle_message_retrigger(e, msg) ==
    CASE msg.type = "Settings" -> [e EXCEPT !.settings = msg.settings]
      [] msg.type = "NoteOn" ->
            note_on([e EXCEPT !.notes =
                        [i \in DOMAIN e.notes |->
                            IF e.notes[i].key = msg.key
                            THEN [e.notes[i] EXCEPT !.state = "Held", !.time = DurZero]
                            ELSE e.notes[i]]],
                    msg.key)
      [] msg.type = "NoteOff" -> note_off(e, msg.key)
      [] msg.type = "Terminate" -> [e EXCEPT !.terminated = TRUE]
      [] OTHER -> e

\* handle_message with a Settings message that also gives its note envelope
\* to the notes of the pool
handle_message_reenvelope(e, msg) ==
    CASE msg.type = "Settings" ->
            [e EXCEPT !.settings = msg.settings,
                      !.notes = [i \in DOMAIN e.notes |->
                                    [e.notes[i] EXCEPT
                                        !.envelope = msg.settings.note_envelope]]]
      [] msg.type = "NoteOn" -> note_on(e, msg.key)
      [] msg.type = "NoteOff" -> note_off(e, msg.key)
      [] msg.type = "Terminate" -> [e EXCEPT !.terminated = TRUE]
      [] OTHER -> e

\* handle_message with a Settings message that leaves the amplitude as it was
handle_message_partial(e, msg) ==
    CASE msg.type = "Settings" ->
            [e EXCEPT !.settings = [msg.settings EXCEPT
                                       !.amplitude = e.settings.amplitude]]
      [] msg.type = "NoteOn" -> note_on(e, msg.key)
      [] msg.type = "NoteOff" -> note_off(e, msg.key)
      [] msg.type = "Terminate" -> [e EXCEPT !.terminated = TRUE]
      [] OTHER -> e

handle_message(e, msg) ==
    CASE msg.type = "Settings" -> [e EXCEPT !.settings = msg.settings]
      [] msg.type = "NoteOn" -> note_on(e, msg.key)
      [] msg.type = "NoteOff" -> note_off(e, msg.key)
      [] msg.type = "Terminate" -> [e EXCEPT !.terminated = TRUE]
      [] OTHER -> e

\* Receiver::try_recv on the queue q whose sender is alive or dropped
try_recv(q, alive) ==
    IF q # <<>> THEN [ok |-> TRUE, msg |-> Head(q), err |-> "none"]
    ELSE [ok |-> FALSE, msg |-> TerminateMsg,
          err |-> IF alive THEN "Empty" ELSE "Disconnected"]

\* drain_inbox with an `if let` for the `while let`: one message a call
drain_inbox_once(e, q, alive) ==
    LET r == try_recv(q, alive)
    IN  IF r.ok
        THEN [e |-> handle_message(e, r.msg), q |-> Tail(q), err |-> "none"]
        ELSE [e |-> e, q |-> q, err |-> r.err]

\* drain_inbox that takes the disconnection of the channel for a Terminate
RECURSIVE drain_inbox_hangup(_, _, _)
drain_inbox_hangup(e, q, alive) ==
    LET r == try_recv(q, alive)
    IN  IF r.ok
        THEN drain_inbox_hangup(handle_message(e, r.msg), Tail(q), alive)
        ELSE [e |-> [e EXCEPT !.terminated = e.terminated \/ r.err = "Disconnected"],
              q |-> q, err |-> r.err]

\* drain_inbox that receives the newest message first
RECURSIVE drain_inbox_lifo(_, _, _)
drain_inbox_lifo(e, q, alive) ==
    IF q # <<>>
    THEN drain_inbox_lifo(handle_message(e, q[Len(q)]),
                          SubSeq(q, 1, Len(q) - 1), alive)
    ELSE [e |-> e, q |-> q, err |-> try_recv(q, alive).err]

\* the loop at the head of Emitter::next: every message try_recv returns is
\* handled; the loop ends on the first error, Empty or Disconnected alike
RECURSIVE drain_inbox(_, _, _)
drain_inbox(e, q, alive) ==
    LET r == try_recv(q, alive)
    IN  IF r.ok
        THEN drain_inbox(handle_message(e, r.msg), Tail(q), alive)
        ELSE [e |-> e, q |-> q, err |-> r.err]

\* samples.into_iter().reduce(|a, b| a.saturating_add(b)) of a non-empty list
RECURSIVE reduce_add(_)
reduce_add(samples) ==
    IF Len(samples) = 1 THEN samples[1]
    ELSE saturating_add(reduce_add(SubSeq(samples, 1, Len(samples) - 1)),
                        samples[Len(samples)])

\* the loop over note.grains in Emitter::next: each grain is pulled once, the
\* grains that gave a sample stay
RECURSIVE pull_grains(_, _)
pull_grains(clip, grains) ==
    IF grains = <<>> THEN [live |-> <<>>, samples |-> <<>>]
    ELSE LET r    == Grain_next(clip, Head(grains))
             rest == pull_grains(clip, Tail(grains))
         IN  IF r.some
             THEN [live |-> <<r.grain>> \o rest.live, samples |-> <<r.sample>> \o rest.samples]
             ELSE rest

\* the end of the body of the loop over the notes: the note with the grains
\* that gave a sample (pulled.live), and the note's sample if any grain gave one
note_mix(note, pulled) ==
    [live |-> TRUE, note |-> [note EXCEPT !.grains = pulled.live],
     panicked |-> FALSE,
     some |-> pulled.samples # <<>>,
     sample |-> IF pulled.samples # <<>>
                THEN amplify(reduce_add(pulled.samples),
                             Note_amplitude([note EXCEPT !.grains = pulled.live]))
                ELSE 0]

\* every grain of the note is pulled once
note_pull(clip, note) == note_mix(note, pull_grains(clip, note.grains))

\* note_step without the `continue` that drops a Finished note
note_step_keep(settings, clip, note, rnd) ==
    note_pull(clip, Note_update(note, duration_per_sample(clip)))

\* note_spawn that leaves the timer of the note running
note_spawn_norearm(settings, clip, note, rnd) ==
    [note EXCEPT !.grains = Append(note.grains, make_grain(settings, clip, note, rnd)),
                 !.spawned = note.spawned + 1]

\* the note gets a new grain and its timer starts again
note_spawn(settings, clip, note, rnd) ==
    [note EXCEPT !.grains = Append(note.grains, make_grain(settings, clip, note, rnd)),
                 !.since_last_grain = DurZero,
                 !.spawned = note.spawned + 1]

\* note_updated that drops a Finished note at the end of its last step: the
\* note still spawns and its grains are still pulled
note_updated_late(settings, clip, updated, rnd) ==
    IF ~DurGE(updated.since_last_grain, grain_interval(settings))
    THEN [note_pull(clip, updated) EXCEPT !.live = updated.state # "Finished"]
    ELSE IF make_grain_panics(settings, clip, updated, rnd)
    THEN [live |-> FALSE, note |-> updated, panicked |-> TRUE,
          some |-> FALSE, sample |-> 0]
    ELSE [note_pull(clip, note_spawn(settings, clip, updated, rnd))
             EXCEPT !.live = updated.state # "Finished"]

\* the body of the loop over the notes after note.update;
\* panicked: make_grain has panicked and the step goes no further
note_updated(settings, clip, updated, rnd) ==
    IF updated.state = "Finished"
    THEN [live |-> FALSE, note |-> updated, panicked |-> FALSE,
          some |-> FALSE, sample |-> 0]
    ELSE IF ~DurGE(updated.since_last_grain, grain_interval(settings))
    THEN note_pull(clip, updated)
    ELSE IF make_grain_panics(settings, clip, updated, rnd)
    THEN [live |-> FALSE, note |-> updated, panicked |-> TRUE,
          some |-> FALSE, sample |-> 0]
    ELSE note_pull(clip, note_spawn(settings, clip, updated, rnd))

\* the body of the loop over the notes in Emitter::next, for one note
note_step(settings, clip, note, rnd) ==
    note_updated(settings, clip, Note_update(note, duration_per_sample(clip)), rnd)

\* what the step of one note (r) adds to what the notes after it give (rest)
step_join(r, rest) ==
    [ panicked   |-> r.panicked \/ rest.panicked,
      live_notes |-> IF r.live THEN <<r.note>> \o rest.live_notes
                     ELSE rest.live_notes,
      samples    |-> IF r.some THEN <<r.sample>> \o rest.samples
                     ELSE rest.samples ]

\* the loop over the notes in Emitter::next: the notes that live on and the
\* samples of the notes that gave one
RECURSIVE step_notes(_, _, _, _)
step_notes(settings, clip, notes, rnds) ==
    IF notes = <<>> THEN [live_notes |-> <<>>, samples |-> <<>>, panicked |-> FALSE]
    ELSE step_join(note_step(settings, clip, Head(notes), Head(rnds)),
                   step_notes(settings, clip, Tail(notes), Tail(rnds)))

None == [kind |-> "None", v |-> 0]

\* the call did not return: it panicked
NoReturn == [kind |-> "Panicked", v |-> 0]

Some(v) == [kind |-> "Some", v |-> v]

\* mix that ends the stream when there is nothing to mix
mix_none(settings, samples) ==
    IF samples # <<>>
    THEN Some(tanh(amplify(reduce_add(samples), settings.amplitude)))
    ELSE None

\* the end of Emitter::next: the limiter on the mix, or silence
mix(settings, samples) ==
    IF samples # <<>>
    THEN Some(tanh(amplify(reduce_add(samples), settings.amplitude)))
    ELSE Some(0)

\* ------------------------------------------------------------------------
\* f64 arithmetic of the parameter mapping, in fixed point
\* ------------------------------------------------------------------------
F64Unit == 1000        \* fixed-point 1.0 of an f64: results are rounded to 0.001

\* x / y rounded to the nearest integer, for y > 0
RoundDiv(x, y) ==
    IF x >= 0 THEN (2 * x + y) \div (2 * y)
    ELSE 0 - ((2 * (0 - x) + y) \div (2 * y))

fmul(x, y) == RoundDiv(x * y, F64Unit)

fdiv(x, y) == RoundDiv(x * F64Unit, y)

\* emath::lerp(a..=b, t): (1 - t) * a + t * b
emath_lerp(a, b, t) == fmul(F64Unit - t, a) + fmul(t, b)

\* emath::remap_clamp(x, from0..=from1, to0..=to1)
remap_clamp(x, from0, from1, to0, to1) ==
    LET swap == from1 < from0
        f0 == IF swap THEN from1 ELSE from0
        f1 == IF swap THEN from0 ELSE from1
        t0 == IF swap THEN to1 ELSE to0
        t1 == IF swap THEN to0 ELSE to1
    IN  IF x <= f0 THEN t0
        ELSE IF f1 <= x THEN t1
        ELSE LET t == fdiv(x - f0, f1 - f0)
             IN  IF F64Unit <= t THEN t1 ELSE emath_lerp(t0, t1, t)

\* log10 of a mantissa in [1, 10), through the points 1, 2, 5 and 10
Log10Mantissa(m) ==
    IF m < 2 * F64Unit THEN RoundDiv((m - F64Unit) * 301, F64Unit)
    ELSE IF m < 5 * F64Unit THEN 301 + RoundDiv((m - 2 * F64Unit) * 398, 3 * F64Unit)
    ELSE 699 + RoundDiv((m - 5 * F64Unit) * 301, 5 * F64Unit)

\* f64::log10 of x > 0
RECURSIVE log10(_)
log10(x) ==
    IF x >= 10 * F64Unit THEN F64Unit + log10(RoundDiv(x, 10))
    ELSE IF x < F64Unit THEN log10(x * 10) - F64Unit
    ELSE Log10Mantissa(x)

\* 10^f for f in [0, 1): the inverse of Log10Mantissa
Pow10Fraction(f) ==
    IF f < 301 THEN F64Unit + RoundDiv(f * F64Unit, 301)
    ELSE IF f < 699 THEN 2 * F64Unit + RoundDiv((f - 301) * 3 * F64Unit, 398)
    ELSE 5 * F64Unit + RoundDiv((f - 699) * 5 * F64Unit, 301)

RECURSIVE Pow10(_)
Pow10(k) == IF k = 0 THEN 1 ELSE 10 * Pow10(k - 1)

\* 10.0_f64.powf(l)
powf10(l) ==
    LET d == l \div F64Unit
        m == Pow10Fraction(l % F64Unit)
    IN  IF d >= 0 THEN m * Pow10(d) ELSE RoundDiv(m, Pow10(0 - d))

\* ------------------------------------------------------------------------
\* Parameter<I>
\* ------------------------------------------------------------------------
\* the kinds of number I that are tried: an integer is stored as itself, an
\* f64 and a Duration (in seconds) in fixed point
Numeric_to_f64(kind, v) == IF kind = "i32" THEN v * F64Unit ELSE v

Returned(v) == [ok |-> TRUE, v |-> v]

\* the panic of a failed assert!, or of Duration::from_secs_f64 below zero
Panicked == [ok |-> FALSE, v |-> 0]

\* `num as i32` cuts the fraction off, towards zero
Numeric_from_f64(kind, x) ==
    CASE kind = "i32" ->
            Returned(IF x >= 0 THEN x \div F64Unit ELSE 0 - ((0 - x) \div F64Unit))
      [] kind = "Duration" -> IF x < 0 THEN Panicked ELSE Returned(x)
      [] OTHER -> Returned(x)

\* Parameter::new(default, min..=max): linear, smallest_positive 1e-6, which
\* is below what the fixed point tells from 0
Parameter_new(kind, default, min, max) ==
    [ kind |-> kind, value |-> default, min |-> min, max |-> max,
      logarithmic |-> FALSE, smallest_positive |-> 0 ]

Parameter_logarithmic(p, smallest_positive) ==
    [p EXCEPT !.logarithmic = TRUE, !.smallest_positive = smallest_positive]

\* the floor of the logarithmic scale
min_log(p, min) ==
    IF min <= p.smallest_positive THEN log10(p.smallest_positive) ELSE log10(min)

\* value_to_normalized without its two early returns and without the clamp
\* of the remap
RECURSIVE value_to_normalized_open(_, _, _, _)
value_to_normalized_open(p, value, min, max) ==
    IF min = max THEN Returned(F64Unit \div 2)
    ELSE IF min > max
    THEN LET r == value_to_normalized_open(p, value, max, min)
         IN  IF r.ok THEN Returned(F64Unit - r.v) ELSE Panicked
    ELSE Returned(fdiv(value - min, max - min))

RECURSIVE value_to_normalized(_, _, _, _)
value_to_normalized(p, value, min, max) ==
    IF min = max THEN Returned(F64Unit \div 2)
    ELSE IF min > max
    THEN LET r == value_to_normalized(p, value, max, min)
         IN  IF r.ok THEN Returned(F64Unit - r.v) ELSE Panicked
    ELSE IF value <= min THEN Returned(0)
    ELSE IF value >= max THEN Returned(F64Unit)
    ELSE IF p.logarithmic
    THEN IF ~(min >= 0 /\ max > min) THEN Panicked
         ELSE Returned(remap_clamp(log10(value), min_log(p, min), log10(max),
                                   0, F64Unit))
    ELSE Returned(remap_clamp(value, min, max, 0, F64Unit))

RECURSIVE normalized_to_value(_, _, _, _)
normalized_to_value(p, normalized, min, max) ==
    IF min = max THEN Returned(min)
    ELSE IF min > max
    THEN normalized_to_value(p, F64Unit - normalized, max, min)
    ELSE IF normalized <= 0 THEN Returned(min)
    ELSE IF normalized >= F64Unit THEN Returned(max)
    ELSE IF p.logarithmic
    THEN IF ~(min >= 0 /\ max > min) THEN Panicked
         ELSE Returned(powf10(emath_lerp(min_log(p, min), log10(max), normalized)))
    ELSE Returned(emath_lerp(min, max, normalized))

get_normalized(p) ==
    value_to_normalized(p, Numeric_to_f64(p.kind, p.value),
                        Numeric_to_f64(p.kind, p.min), Numeric_to_f64(p.kind, p.max))

\* the parameter after set_normalized(norm_val): ok is FALSE if the call
\* panicked, and v is then the parameter as it was
set_normalized(p, norm_val) ==
    LET val == normalized_to_value(p, norm_val,
                   Numeric_to_f64(p.kind, p.min), Numeric_to_f64(p.kind, p.max))
        new == IF val.ok THEN Numeric_from_f64(p.kind, val.v) ELSE Panicked
    IN  IF new.ok THEN Returned([p EXCEPT !.value = new.v])
        ELSE [ok |-> FALSE, v |-> p]

\* EmitterParams.transpose
ParamTranspose == Parameter_new("i32", 0, 0 - 12, 12)

\* EmitterParams.position
ParamPosition == Parameter_new("f64", 0, 0, F64Unit)

\* EmitterParams.density
ParamDensity ==
    Parameter_logarithmic(Parameter_new("f64", 10 * F64Unit, F64Unit, 100 * F64Unit), 0)

\* a logarithmic time of 0 to 1 s, as EmitterParams.length, with
\* .smallest_positive(0.01)
ParamTime ==
    Parameter_logarithmic(Parameter_new("Duration", 100, 0, F64Unit), 10)

\* a range of one value
ParamFixed == Parameter_new("i32", 5, 5, 5)

\* a logarithmic range that lies below its smallest_positive of 0.01
ParamBelowFloor == Parameter_logarithmic(Parameter_new("f64", 0, 0, 5), 10)

\* logarithmic ranges that break min >= 0 and max > min
ParamNegativeLog ==
    Parameter_logarithmic(Parameter_new("f64", 0, 0 - F64Unit, F64Unit), 0)

ParamInvertedLog ==
    Parameter_logarithmic(Parameter_new("f64", 5 * F64Unit, 10 * F64Unit, F64Unit), 0)

ParameterValues ==
    { ParamTranspose, ParamPosition, ParamDensity, ParamTime, ParamFixed,
      ParamBelowFloor, ParamNegativeLog, ParamInvertedLog }

\* EmitterParams.num_slices (an u8 is cut off as an i32 is)
ParamNumSlices == Parameter_new("i32", 12, 1, 127)

\* EmitterParams.amplitude
ParamAmplitude == Parameter_new("f64", F64Unit, 0, F64Unit)

\* EmitterParams::default, with the parameters that are not times (the times
\* are logarithmic from 0 with a smallest_positive of 1e-6, below what the
\* fixed point tells from 0) and without the envelopes
EmitterParams_default ==
    [ midi_cc_map |-> <<>>,
      num_slices  |-> ParamNumSlices,
      position    |-> ParamPosition,
      density     |-> ParamDensity,
      transpose   |-> ParamTranspose,
      amplitude   |-> ParamAmplitude ]

\* the field of EmitterParams a ControlParam stands for
ControlParam ==
    [ Position  |-> "position",
      NumSlices |-> "num_slices",
      Density   |-> "density",
      Transpose |-> "transpose",
      Amplitude |-> "amplitude" ]

\* value.as_int() as f64 / 127.0
norm_value(value) == fdiv(value * F64Unit, 127 * F64Unit)

\* one arm of the match on the ControlParam
apply_control(params, control, norm_val) ==
    CASE control = "Position" ->
            [params EXCEPT !.position = set_normalized(@, norm_val).v]
      [] control = "NumSlices" ->
            [params EXCEPT !.num_slices = set_normalized(@, norm_val).v]
      [] control = "Density" ->
            [params EXCEPT !.density = set_normalized(@, norm_val).v]
      [] control = "Transpose" ->
            [params EXCEPT !.transpose = set_normalized(@, norm_val).v]
      [] control = "Amplitude" ->
            [params EXCEPT !.amplitude = set_normalized(@, norm_val).v]

\* the loop over the table that stops at the first entry of the controller
RECURSIVE apply_cc_map_first(_, _, _, _)
apply_cc_map_first(params, cc_map, controller, norm_val) ==
    IF cc_map = <<>> THEN params
    ELSE IF Head(cc_map).cc = controller
    THEN apply_control(params, Head(cc_map).param, norm_val)
    ELSE apply_cc_map_first(params, Tail(cc_map), controller, norm_val)

\* the loop over the MIDI CC table, from its first entry to its last
RECURSIVE apply_cc_map(_, _, _, _)
apply_cc_map(params, cc_map, controller, norm_val) ==
    IF cc_map = <<>> THEN params
    ELSE apply_cc_map(IF Head(cc_map).cc = controller
                      THEN apply_control(params, Head(cc_map).param, norm_val)
                      ELSE params,
                      Tail(cc_map), controller, norm_val)

\* the values Parameter::set is called with, in and out of the range
StoredValues(p) ==
    CASE p.kind = "i32" -> {0 - 13, 0 - 12, 0 - 2, 0, 4, 7, 12, 13}
      [] p.kind = "Duration" -> {0, 3, 10, 15, 250, 1000, 1500}
      [] OTHER -> {0 - 1500, 0 - 1000, 0 - 500, 0, 3, 5, 250, 1000, 5000,
                   10000, 15000, 100000, 150000}

\* the positions set_normalized is called with
NormValues == {0 - 500, 0, 250, 500, 1000, 1500}

\* ------------------------------------------------------------------------
\* State
\* ------------------------------------------------------------------------
\* no Parameter under test, no call made
NoParameter == [kind |-> "none"]

NoCall == [fn |-> "none"]

VARIABLES
    channel,       \* the messages in flight from the control plane to the emitter
    senderAlive,   \* the control plane still holds the Sender
    settings,      \* Emitter.settings
    notes,         \* Emitter.notes
    terminated,    \* Emitter.terminated
    created,       \* number of notes created so far (numbers the notes)
    out,           \* what the last call of Emitter::next returned
    polyphony,     \* EmitterParams.polyphony, held by the control plane
    sentOns,       \* number of NoteOn messages sent
    sent,          \* number of messages sent
    termSent,      \* a Terminate has been sent
    drained,       \* the kinds of the messages the last call of Emitter::next received
    lastErr,       \* the error of try_recv that ended its loop in that call
    clip,          \* Emitter.audio_clip
    phase,         \* number of samples returned since the last frame boundary
    param,         \* a Parameter<T> of the control plane
    ret,           \* the last call of a function of params.rs or envelope.rs
    handle,        \* the application's EmitterHandle
    inboxes,       \* the inbox of every emitter the application has started
    label          \* the error label drawn by the last frame of the panel

vars == <<channel, senderAlive, settings, notes, terminated, created, out,
          polyphony, sentOns, sent, termSent, drained, lastErr, clip, phase,
          param, ret, handle, inboxes, label>>

appVars == <<handle, inboxes, label>>

Emitter == [settings |-> settings, notes |-> notes, terminated |-> terminated,
            created |-> created]

\* Emitter::new on the clip c, before the first poll
Emitter_new(c) ==
    /\ channel = <<>>
    /\ senderAlive = TRUE
    /\ settings = EmitterSettings_default
    /\ notes = <<>>
    /\ terminated = FALSE
    /\ created = 0
    /\ out = [kind |-> "Unpolled", v |-> 0]
    /\ polyphony \in PolyphonyValues
    /\ sentOns = 0
    /\ sent = 0
    /\ termSent = FALSE
    /\ drained = <<>>
    /\ lastErr = "none"
    /\ clip = c
    /\ phase = 0

\* an Option<AudioClip>
NoClip == [some |-> FALSE, data |-> <<>>, channels |-> 0, sample_rate |-> 0]

SomeClip(c) == [some |-> TRUE, data |-> c.data, channels |-> c.channels,
                sample_rate |-> c.sample_rate]

\* msg_sender is the number of the emitter the Sender leads to, 0 for None
EmitterHandle_default ==
    [track_name |-> "", params |-> EmitterParams_default, waveform |-> NoClip,
     msg_sender |-> 0]

\* NebulizerApp::new
NebulizerApp_new ==
    /\ handle = EmitterHandle_default
    /\ inboxes = <<>>
    /\ label = ""

Init ==
    /\ Emitter_new(TheClip)
    /\ param = NoParameter
    /\ ret = NoCall
    /\ NebulizerApp_new

\* the emitter of a stereo clip
StereoInit ==
    /\ Emitter_new(StereoClip)
    /\ param = NoParameter
    /\ ret = NoCall
    /\ NebulizerApp_new

\* ------------------------------------------------------------------------
\* Control plane: Sender::send, and the drop of the Sender
\* ------------------------------------------------------------------------
Send(msg) ==
    /\ senderAlive
    /\ Len(channel) < MaxQueue
    /\ sent < MaxSends
    /\ channel' = Append(channel, msg)
    /\ sent' = sent + 1

SendNoteOn(k) ==
    /\ sentOns < MaxNoteOns
    /\ Send(NoteOnMsg(k))
    /\ sentOns' = sentOns + 1
    /\ UNCHANGED <<senderAlive, settings, notes, terminated, created, out,
                   polyphony, termSent, drained, lastErr,
                   clip, phase, param, ret, appVars>>

SendNoteOff(k) ==
    /\ Send(NoteOffMsg(k))
    /\ UNCHANGED <<senderAlive, settings, notes, terminated, created, out,
                   polyphony, sentOns, termSent, drained, lastErr,
                   clip, phase, param, ret, appVars>>

SendSettings(s) ==
    /\ Send(SettingsMsg(s))
    /\ UNCHANGED <<senderAlive, settings, notes, terminated, created, out,
                   polyphony, sentOns, termSent, drained, lastErr,
                   clip, phase, param, ret, appVars>>

SendTerminate ==
    /\ Send(TerminateMsg)
    /\ termSent' = TRUE
    /\ UNCHANGED <<senderAlive, settings, notes, terminated, created, out,
                   polyphony, sentOns, drained, lastErr,
                   clip, phase, param, ret, appVars>>

DropSender ==
    /\ senderAlive
    /\ senderAlive' = FALSE
    /\ UNCHANGED <<channel, settings, notes, terminated, created, out,
                   polyphony, sentOns, sent, termSent, drained, lastErr,
                   clip, phase, param, ret, appVars>>

\* ------------------------------------------------------------------------
\* Audio plane: Emitter::next
\* ------------------------------------------------------------------------
\* the draws of the random number generator for n notes: it is only drawn
\* from when the spray is positive
Draws(s, n) ==
    IF DurGT(s.spray, DurZero)
    THEN [1..n -> RandValues]
    ELSE {[i \in 1..n |-> 0]}

HeldTooLong(ns) ==
    \E i \in DOMAIN ns :
        /\ ns[i].state = "Held"
        /\ DurGE(ns[i].time, DurTimes(duration_per_sample(clip), MaxHeldSteps))

Emitter_next ==
    LET r == drain_inbox(Emitter, channel, senderAlive)
    IN  /\ ~HeldTooLong(r.e.notes)
        \* a panic ends the audio thread
        /\ out.kind # "Panicked"
        /\ channel' = r.q
        /\ drained' = [i \in DOMAIN channel |-> channel[i].type]
        /\ lastErr' = r.err
        /\ settings' = r.e.settings
        /\ terminated' = r.e.terminated
        /\ created' = r.e.created
        /\ IF r.e.terminated
           THEN /\ out' = None
                /\ notes' = r.e.notes
           ELSE \E rnds \in Draws(r.e.settings, Len(r.e.notes)) :
                    LET p == step_notes(r.e.settings, clip, r.e.notes, rnds)
                    IN  IF p.panicked
                        THEN \* the pool was taken out by mem::take
                             /\ notes' = <<>>
                             /\ out' = NoReturn
                        ELSE /\ notes' = p.live_notes
                             /\ out' = mix(r.e.settings, p.samples)
        /\ phase' = (IF r.e.terminated THEN phase ELSE (phase + 1) % clip.channels)
        /\ UNCHANGED <<senderAlive, polyphony, sentOns, sent, termSent, clip,
                       param, ret, appVars>>

Next ==
    \/ \E k \in Keys : SendNoteOn(k)
    \/ \E k \in Keys : SendNoteOff(k)
    \/ \E s \in SettingsValues : SendSettings(s)
    \/ SendTerminate
    \/ DropSender
    \/ Emitter_next

Spec == Init /\ [][Next]_vars

StereoSpec == StereoInit /\ [][Next]_vars

\* ------------------------------------------------------------------------
\* The emitter under settings at the ends of their ranges
\* ------------------------------------------------------------------------
\* density 1..=100, num_slices 1..=127, position 0..=1, spray and length
\* from 0: the position at its upper end with grains of no length; one
\* slice, a wide spray; 127 slices, a narrow spray; a narrow spray at 0.75
\* and at 0
RangeSettingsValues ==
    { [ EmitterSettings_default EXCEPT
          !.position = PosUnit, !.density = 100, !.length = DurZero ],
      [ EmitterSettings_default EXCEPT
          !.key_mode = "Slice", !.num_slices = 1, !.density = 1,
          !.spray = DurMillis(10), !.length = DurMillis(15) ],
      [ EmitterSettings_default EXCEPT
          !.key_mode = "Slice", !.num_slices = 127, !.density = 100,
          !.spray = Dur(0, 50000), !.length = DurMillis(15) ],
      [ EmitterSettings_default EXCEPT
          !.position = (3 * PosUnit) \div 4, !.spray = Dur(0, 50000) ],
      [ EmitterSettings_default EXCEPT
          !.position = 0, !.spray = Dur(0, 50000), !.transpose = 0 - 12 ] }

RangeKeys == {0, 60, 127}

RangeNext ==
    \/ \E k \in RangeKeys : SendNoteOn(k)
    \/ \E k \in RangeKeys : SendNoteOff(k)
    \/ \E s \in RangeSettingsValues : SendSettings(s)
    \/ Emitter_next

RangeSpec == Init /\ [][RangeNext]_vars

\* ------------------------------------------------------------------------
\* The emitter of a longer clip under settings that stay as they are
\* ------------------------------------------------------------------------
LongInit ==
    /\ Emitter_new(LongClip)
    /\ param = NoParameter
    /\ ret = NoCall
    /\ NebulizerApp_new

\* grains of 30 ms at 10, 50 and 100 grains a second, of 25 ms at 50
SteadySettingsValues ==
    { [ EmitterSettings_default EXCEPT !.length = DurMillis(30) ],
      [ EmitterSettings_default EXCEPT !.length = DurMillis(30), !.density = 50 ],
      [ EmitterSettings_default EXCEPT !.length = DurMillis(25), !.density = 50 ],
      [ EmitterSettings_default EXCEPT !.length = DurMillis(30), !.density = 100 ] }

\* the settings are sent once, before anything else
SteadyNext ==
    \/ \E k \in Keys : SendNoteOn(k)
    \/ \E k \in Keys : SendNoteOff(k)
    \/ \E s \in SteadySettingsValues : sent = 0 /\ SendSettings(s)
    \/ Emitter_next

SteadySpec == LongInit /\ [][SteadyNext]_vars

\* ------------------------------------------------------------------------
\* The calls on a Parameter
\* ------------------------------------------------------------------------
emitterVars == <<channel, senderAlive, settings, notes, terminated, created, out,
                 polyphony, sentOns, sent, termSent, drained, lastErr, clip, phase>>

ParamInit ==
    /\ Emitter_new(TheClip)
    /\ param \in ParameterValues
    /\ ret = NoCall
    /\ NebulizerApp_new

Call_set(v) ==
    /\ param' = [param EXCEPT !.value = v]
    /\ ret' = [fn |-> "set", p |-> param, n |-> 0, ok |-> TRUE, val |-> v]
    /\ UNCHANGED <<emitterVars, appVars>>

Call_get_normalized ==
    LET r == get_normalized(param)
    IN  /\ ret' = [fn |-> "get_normalized", p |-> param, n |-> 0,
                   ok |-> r.ok, val |-> r.v]
        /\ UNCHANGED <<param, emitterVars, appVars>>

Call_set_normalized(n) ==
    LET r == set_normalized(param, n)
    IN  /\ param' = r.v
        /\ ret' = [fn |-> "set_normalized", p |-> param, n |-> n,
                   ok |-> r.ok, val |-> r.v.value]
        /\ UNCHANGED <<emitterVars, appVars>>

\* the positions at hand: the values tried and what get_normalized returned
Positions ==
    NormValues \cup (IF ret.fn = "get_normalized" /\ ret.ok THEN {ret.val} ELSE {})

ParamNext ==
    \/ \E v \in StoredValues(param) : Call_set(v)
    \/ Call_get_normalized
    \/ \E n \in Positions : Call_set_normalized(n)

ParamSpec == ParamInit /\ [][ParamNext]_vars

\* ------------------------------------------------------------------------
\* The calls of the envelopes and of make_grain
\* ------------------------------------------------------------------------
\* all times positive; the default (no attack); no time at all; no decay
EnvelopeValues ==
    { Adsr(DurMillis(10), DurMillis(20), Unit \div 2, DurMillis(30)),
      AdsrEnvelope_default,
      Adsr(DurZero, DurZero, Unit \div 2, DurZero),
      Adsr(DurMillis(10), DurZero, Unit \div 2, DurMillis(30)) }

TimeValues == {DurMillis(ms) : ms \in {0, 5, 10, 15, 20, 30, 40, 1000}}

GrainEnvelopeValues ==
    [amount : {0, PosUnit \div 2, PosUnit},
     skew   : {0 - PosUnit, 0, PosUnit \div 2, PosUnit}]

ProgressValues == {0 - 100, 0, 100, 250, 500, 750, 900, PosUnit, PosUnit + 100}

PitchKeys == {48, 55, 60, 72}

TransposeValues == {0 - 12, 0, 7, 12}

EnvInit ==
    /\ Emitter_new(TheClip)
    /\ param = NoParameter
    /\ ret = NoCall
    /\ NebulizerApp_new

Call_held_amplitude(env, t) ==
    /\ ret' = [fn |-> "held_amplitude", env |-> env, t |-> t,
               val |-> held_amplitude(env, t)]
    /\ UNCHANGED <<param, emitterVars, appVars>>

Call_released_amplitude(env, t) ==
    /\ ret' = [fn |-> "released_amplitude", env |-> env, t |-> t,
               val |-> released_amplitude(env, t)]
    /\ UNCHANGED <<param, emitterVars, appVars>>

Call_oneshot_amplitude(env, t) ==
    /\ ret' = [fn |-> "oneshot_amplitude", env |-> env, t |-> t,
               val |-> oneshot_amplitude(env, t)]
    /\ UNCHANGED <<param, emitterVars, appVars>>

Call_amplitude_at(genv, x) ==
    /\ ret' = [fn |-> "amplitude_at", genv |-> genv, x |-> x,
               val |-> amplitude_at(genv, x)]
    /\ UNCHANGED <<param, emitterVars, appVars>>

\* make_grain for a note of the key, under the default settings with the key
\* mode and the transposition given
Call_make_grain(mode, transpose, key) ==
    LET s == [EmitterSettings_default EXCEPT !.key_mode = mode,
                                             !.transpose = transpose]
    IN  /\ ret' = [fn |-> "make_grain", settings |-> s, key |-> key,
                   val |-> make_grain(s, clip, Note_new(key, s.note_envelope, 1), 0)]
        /\ UNCHANGED <<param, emitterVars, appVars>>

\* the clips, start positions, lengths and speeds a grain is made with
\* a 100 Hz mono clip of the number of frames given
FramesClip(frames) ==
    [data |-> [i \in 1..frames |-> 10 * (i % 5) - 20],
     channels |-> 1, sample_rate |-> 100]

\* the last two are clips whose count of frames is not a value of the format:
\* it is rounded down for the one, up for the other
ClipValues == {TheClip, StereoClip, FramesClip(257), FramesClip(259)}

GrainStartValues == {0 - 500, 0, 500, 999, PosUnit, PosUnit + 500}

GrainLengthValues == {DurZero, DurMillis(10), DurMillis(30)}

GrainSpeedValues == {500, 1000, 2000}

Call_Grain_new(c, start, length, speed) ==
    LET g == Grain_new(c, start, length, speed, Unit,
                       EmitterSettings_default.grain_envelope)
    IN  /\ ret' = [fn |-> "Grain_new", clip |-> c, grain |-> g, pulls |-> 0,
                   val |-> [grain |-> g, some |-> FALSE, sample |-> 0]]
        /\ UNCHANGED <<param, emitterVars, appVars>>

\* one more pull of the grain made or pulled by the last call; ret.grain is
\* the grain before the pull
Call_Grain_next ==
    /\ ret.fn \in {"Grain_new", "Grain_next"}
    /\ ret.pulls < MaxPulls
    /\ ret' = [fn |-> "Grain_next", clip |-> ret.clip, grain |-> ret.val.grain,
               pulls |-> ret.pulls + 1,
               val |-> Grain_next(ret.clip, ret.val.grain)]
    /\ UNCHANGED <<param, emitterVars, appVars>>

\* a clip of one frame at the rate and with the channels given
RateClip(rate, channels) ==
    [data |-> [i \in 1..channels |-> 50], channels |-> channels, sample_rate |-> rate]

\* the first update of a note by the duration of a sample of the clip, as in
\* the loop over the notes of Emitter::next
Call_Note_update(c) ==
    LET delta == duration_per_sample(c)
    IN  /\ ret' = [fn |-> "Note_update", clip |-> c, delta |-> delta, steps |-> 1,
                   val |-> Note_update(Note_new(60, EmitterSettings_default.note_envelope, 1),
                                       delta)]
        /\ UNCHANGED <<param, emitterVars, appVars>>

\* one more update of the note of the last call
Call_Note_update_again ==
    /\ ret.fn = "Note_update"
    /\ ret.steps < MaxUpdates
    /\ ret.steps < ret.clip.sample_rate * ret.clip.channels
    /\ ret' = [ret EXCEPT !.steps = ret.steps + 1,
                          !.val = Note_update(ret.val, duration_per_sample(ret.clip))]
    /\ UNCHANGED <<param, emitterVars, appVars>>

EnvNext ==
    \* 10^9 is a multiple of some of the products rate x channels, not of others
    \/ \E rate \in {1, 3, 7, 500000000}, channels \in {1, 2} :
            Call_Note_update(RateClip(rate, channels))
    \/ Call_Note_update_again
    \/ \E c \in ClipValues, start \in GrainStartValues,
          length \in GrainLengthValues, speed \in GrainSpeedValues :
            Call_Grain_new(c, start, length, speed)
    \/ Call_Grain_next
    \/ \E env \in EnvelopeValues, t \in TimeValues : Call_held_amplitude(env, t)
    \/ \E env \in EnvelopeValues, t \in TimeValues : Call_released_amplitude(env, t)
    \/ \E env \in EnvelopeValues, t \in TimeValues : Call_oneshot_amplitude(env, t)
    \/ \E genv \in GrainEnvelopeValues, x \in ProgressValues : Call_amplitude_at(genv, x)
    \/ \E mode \in {"Pitch", "Slice"}, tr \in TransposeValues, key \in PitchKeys :
            Call_make_grain(mode, tr, key)

EnvSpec == EnvInit /\ [][EnvNext]_vars

\* ------------------------------------------------------------------------
\* The grains made under the settings in force
\* ------------------------------------------------------------------------
PositionValues == {0, PosUnit \div 4, (3 * PosUnit) \div 4, PosUnit}

NumSlicesValues == {1, 3, 127}

\* no spray; 50 us, 2 ms, 10 ms and 30 ms on a clip of 20 ms
SprayValues == {DurZero, Dur(0, 50000), DurMillis(2), DurMillis(10), DurMillis(30)}

\* the settings that differ from s in one of the key mode, the transposition,
\* the position, the number of slices and the spray
OneChange(s) ==
    {[s EXCEPT !.key_mode = mode] : mode \in {"Pitch", "Slice"}}
        \cup {[s EXCEPT !.transpose = tr] : tr \in TransposeValues}
        \cup {[s EXCEPT !.position = pos] : pos \in PositionValues}
        \cup {[s EXCEPT !.num_slices = n] : n \in NumSlicesValues}
        \cup {[s EXCEPT !.spray = spray] : spray \in SprayValues}

\* the emitter handles a Settings message
Handle_settings(s) ==
    /\ settings' = handle_message(Emitter, SettingsMsg(s)).settings
    /\ ret' = NoCall
    /\ UNCHANGED <<channel, senderAlive, notes, terminated, created, out,
                   polyphony, sentOns, sent, termSent, drained, lastErr,
                   clip, phase, param, appVars>>

\* make_grain for a new note of the key under the settings in force, the
\* generator drawing rnd
Spawn(key, rnd) ==
    LET note == Note_new(key, settings.note_envelope, 1)
    IN  /\ ret' = [fn |-> "make_grain", settings |-> settings, key |-> key,
                   rnd |-> rnd,
                   panicked |-> make_grain_panics(settings, clip, note, rnd),
                   val |-> make_grain(settings, clip, note, rnd)]
        /\ UNCHANGED <<param, emitterVars, appVars>>

GrainNext ==
    \/ \E s \in OneChange(settings) : Handle_settings(s)
    \/ \E key \in PitchKeys, rnd \in RandValues : Spawn(key, rnd)

GrainSpec == EnvInit /\ [][GrainNext]_vars

\* ------------------------------------------------------------------------
\* The application: the emitters panel and the MIDI callback
\* ------------------------------------------------------------------------
\* the files at hand: File::open succeeds or not, Decoder::new succeeds or not
Files ==
    [ name    |-> {"kick.wav", "pad.wav", "gone.wav", "notes.txt"},
      opens   |-> {"kick.wav", "pad.wav", "notes.txt"},
      decodes |-> {"kick.wav", "pad.wav"} ]

Decoded(path) == IF path = "kick.wav" THEN TheClip ELSE StereoClip

\* no file picked: the button was not clicked or the dialog was cancelled
NoPick == ""

\* load_from_file that makes a clip of no samples of a file it cannot decode
load_from_file_partial(path) ==
    IF path \in Files.opens
    THEN IF path \in Files.decodes
         THEN SomeClip(Decoded(path))
         ELSE [NoClip EXCEPT !.some = TRUE]
    ELSE NoClip

load_from_file(path) ==
    IF path \in Files.opens
    THEN IF path \in Files.decodes
         THEN SomeClip(Decoded(path))
         ELSE NoClip
    ELSE NoClip

\* the messages the application sends: EmitterMessage::Params(params), and
\* the ones that carry no parameters
ParamsMessage(params) == [type |-> "Params", params |-> params]

PlainMessage(type) == [type |-> type, params |-> EmitterParams_default]

\* what the MIDI callback is called with
MidiNoteOn == [type |-> "NoteOn", controller |-> 0, value |-> 0]

MidiNoteOff == [type |-> "NoteOff", controller |-> 0, value |-> 0]

MidiController(controller, value) ==
    [type |-> "Controller", controller |-> controller, value |-> value]

send(boxes, sender, msg) ==
    IF sender = 0 THEN boxes
    ELSE [boxes EXCEPT ![sender] = Append(@, msg)]

\* one frame of the emitters panel; pick is the file picked in it, if any
emitters_panel(pick) ==
    LET loaded == IF pick = NoPick THEN NoClip ELSE load_from_file(pick)
        \* the emitter at work is terminated, a new one started
        started == Append(send(inboxes, handle.msg_sender, PlainMessage("Terminate")),
                          <<>>)
        boxes == IF loaded.some THEN started ELSE inboxes
        h == IF loaded.some
             THEN [handle EXCEPT !.track_name = pick, !.waveform = loaded,
                                 !.msg_sender = Len(started)]
             ELSE handle
        \* the parameters are sent at the end of every frame
        after == send(boxes, h.msg_sender, ParamsMessage(h.params))
    IN  /\ Len(after) <= MaxLoads
        /\ \A i \in DOMAIN after : Len(after[i]) <= MaxInbox
        /\ handle' = h
        /\ inboxes' = after
        /\ label' = (IF pick # NoPick /\ ~loaded.some
                     THEN "Failed to read/decode audio file!" ELSE "")
        /\ UNCHANGED <<param, ret, emitterVars>>

\* the controller numbers and the parameters the MIDI CC table is set to
ControllerValues == {0, 7}

ControlParamValues == {"Position", "Transpose", "Density"}

\* what is clicked in a frame of the settings panel: the controller or the
\* parameter of the entry e is picked, the entry is deleted, or one is added
Clicks ==
    [widget : {"cc", "param", "X", "+"}, e : 1 .. MaxMappings,
     cc : ControllerValues, param : ControlParamValues]

\* one frame of the settings panel, the MIDI CC table in it
settings_panel(click) ==
    LET cc_map == handle.params.midi_cc_map
        edited ==
            CASE click.widget = "cc" -> [cc_map EXCEPT ![click.e].cc = click.cc]
              [] click.widget = "param" -> [cc_map EXCEPT ![click.e].param = click.param]
              [] click.widget = "X" ->
                    SubSeq(cc_map, 1, click.e - 1) \o SubSeq(cc_map, click.e + 1, Len(cc_map))
              [] click.widget = "+" -> Append(cc_map, [cc |-> 0, param |-> "Position"])
    IN  /\ click.widget # "+" => click.e \in DOMAIN cc_map
        /\ click.widget = "+" => Len(cc_map) < MaxMappings
        /\ handle' = [handle EXCEPT !.params.midi_cc_map = edited]
        /\ label' = ""
        /\ UNCHANGED <<inboxes, param, ret, emitterVars>>

\* the MIDI callback; without a Sender in the handle it does nothing
handle_midi_msg(message) ==
    /\ handle.msg_sender # 0
    /\ Len(inboxes[handle.msg_sender]) < MaxInbox
    /\ IF message.type = "Controller"
       THEN LET params == apply_cc_map(handle.params, handle.params.midi_cc_map,
                                       message.controller, norm_value(message.value))
            IN  /\ handle' = [handle EXCEPT !.params = params]
                /\ inboxes' = send(inboxes, handle.msg_sender, ParamsMessage(params))
       ELSE /\ inboxes' = send(inboxes, handle.msg_sender, PlainMessage(message.type))
            /\ UNCHANGED handle
    /\ UNCHANGED <<label, param, ret, emitterVars>>

\* the audio thread: the i-th emitter empties its inbox
AppEmitter_drain(i) ==
    /\ inboxes[i] # <<>>
    /\ inboxes' = [inboxes EXCEPT ![i] = <<>>]
    /\ UNCHANGED <<handle, label, param, ret, emitterVars>>

AppInit ==
    /\ Emitter_new(TheClip)
    /\ param = NoParameter
    /\ ret = NoCall
    /\ NebulizerApp_new

AppNext ==
    \/ \E pick \in Files.name \cup {NoPick} : emitters_panel(pick)
    \/ \E m \in {MidiNoteOn, MidiNoteOff} : handle_midi_msg(m)
    \/ \E i \in DOMAIN inboxes : AppEmitter_drain(i)

AppSpec == AppInit /\ [][AppNext]_vars

\* the values of a MIDI Controller message: the ends and the middle
MidiValues == {0, 64, 127}

\* the emitter at work has emptied its inbox
Quiet == handle.msg_sender # 0 /\ inboxes[handle.msg_sender] = <<>>

\* the application with its MIDI CC table in use: one sample is loaded, and
\* the emitter keeps up with the controller
ControlNext ==
    \/ handle.msg_sender = 0 /\ emitters_panel("kick.wav")
    \/ \E click \in Clicks : settings_panel(click)
    \/ \E c \in ControllerValues, v \in MidiValues :
          Quiet /\ handle_midi_msg(MidiController(c, v))
    \/ \E i \in DOMAIN inboxes : AppEmitter_drain(i)

ControlSpec == AppInit /\ [][ControlNext]_vars

\* ------------------------------------------------------------------------
\* Properties
\* ------------------------------------------------------------------------
Polled == out.kind # "Unpolled"

\* the emitter after the first j messages in flight have been handled
AfterHandling(j) == drain_inbox(Emitter, SubSeq(channel, 1, j), TRUE).e

NoGrains(ns) == \A i \in DOMAIN ns : ns[i].grains = <<>>

\* C1: once a Terminate has been sent, the next call of Emitter::next returns
\* None, whatever other messages are in flight before or after the Terminate.
C1_TerminateEndsNextPoll ==
    [][(termSent /\ Emitter_next) => out'.kind = "None"]_vars

C1_Witness ==
    /\ termSent
    /\ out.kind = "None"
    /\ \E i, j \in DOMAIN drained :
          i < j /\ drained[i] = "Terminate" /\ drained[j] = "NoteOn"

\* C2: the terminated flag, once set, stays set whatever message is handled
\* later, and every call of Emitter::next from then on returns None.
C2_TerminationPermanent ==
    [][terminated => (terminated' /\ out'.kind = "None")]_vars

C2_Witness ==
    /\ terminated
    /\ out.kind = "None"
    /\ \E i \in DOMAIN drained : drained[i] = "NoteOn"
    /\ \A i \in DOMAIN drained : drained[i] # "Terminate"

\* C3: the note pool never holds more notes than the polyphony limit.
C3_PoolWithinPolyphony == Len(notes) <= polyphony

\* C4: handling a NoteOn appends a Held note of elapsed time zero for the
\* key; if the pool was at the polyphony limit, the note created earliest (the
\* head of the pool) and no other is evicted, otherwise no note is.
C4_NoteOnStealsOldest ==
    \A j \in DOMAIN channel :
        channel[j].type = "NoteOn" =>
            LET pre  == AfterHandling(j - 1).notes
                post == AfterHandling(j).notes
                new  == post[Len(post)]
                kept == SubSeq(post, 1, Len(post) - 1)
            IN  /\ Len(post) >= 1
                /\ new.key = channel[j].key
                /\ new.state = "Held"
                /\ new.time = DurZero
                /\ kept = IF Len(pre) >= polyphony THEN Tail(pre) ELSE pre

\* C5: Emitter::next returns None only once a Terminate has been received;
\* in every other state, also after the Sender has been dropped, it returns a
\* sample.
C5_EndOnlyOnTerminate ==
    /\ out.kind \in {"Unpolled", "Some", "None"}
    /\ out.kind = "None" => terminated
    /\ terminated => termSent
    /\ (Polled /\ ~terminated) => out.kind = "Some"

C5_Witness ==
    /\ lastErr = "Disconnected"
    /\ ~termSent
    /\ notes # <<>>
    /\ out.kind = "Some"

\* C6: a production step that leaves no note with a grain that gave a sample
\* (the pool is empty, or no grain of a live note gave one) returns the
\* sample 0.
C6_SilenceWithoutGrains ==
    (Polled /\ ~terminated /\ NoGrains(notes)) => out = Some(0)

C6_Witness ==
    /\ Polled
    /\ ~terminated
    /\ notes # <<>>
    /\ NoGrains(notes)
    /\ out = Some(0)

\* C7: a note in the Released state is removed from the pool once it has been
\* updated for its envelope's release time since its release.
C7_ReleasedIsPurged ==
    \A i \in DOMAIN notes :
        (out.kind = "Some" /\ notes[i].state = "Released")
            => ~DurGE(notes[i].since_off, notes[i].envelope.release)

NoteOffInFlight(key) ==
    \E m \in DOMAIN channel : channel[m].type = "NoteOff" /\ channel[m].key = key

\* C8: the state of a note only moves forward, Held to Released to Finished
\* (a Finished note leaves the pool in the step that finishes it): a Released
\* note is never Held again, a Held note leaves the Held state only in a call
\* that handles a NoteOff of its key, and a Released note is finished in the
\* first update that brings its release timer to the release time, not before.
C8_StateMovesForward ==
    [][\A i \in DOMAIN notes :
          LET n    == notes[i]
              J    == {j \in DOMAIN notes' : notes'[j].id = n.id}
              off  == NoteOffInFlight(n.key)
              dt   == duration_per_sample(clip)
              time == IF off THEN dt ELSE DurAdd(n.time, dt)
          IN  /\ \A j \in J :
                    /\ n.state = "Released" => notes'[j].state = "Released"
                    /\ (n.state = "Held" /\ notes'[j].state # "Held") => off
                    /\ (notes'[j].state = "Released" /\ ~terminated')
                          => ~DurGE(notes'[j].time, notes'[j].envelope.release)
              /\ J = {} => /\ n.state = "Released" \/ off
                           /\ DurGE(time, n.envelope.release)
      ]_vars

C8_Witness ==
    /\ created > Len(notes)
    /\ \E i \in DOMAIN notes :
          notes[i].state = "Released" /\ DurGT(notes[i].time, DurZero)

\* C9: handling a NoteOff releases, with elapsed time zero, the Held notes of
\* its key and leaves every other note as it was.
C9_NoteOffFrame ==
    \A j \in DOMAIN channel :
        channel[j].type = "NoteOff" =>
            LET pre  == AfterHandling(j - 1).notes
                post == AfterHandling(j).notes
            IN  /\ Len(post) = Len(pre)
                /\ \A i \in DOMAIN pre :
                      post[i] = IF pre[i].key = channel[j].key /\ pre[i].state = "Held"
                                THEN [pre[i] EXCEPT !.state = "Released", !.time = DurZero]
                                ELSE pre[i]

\* C10: after a production step no note of the pool is Finished.
C10_NoFinishedInPool ==
    \A i \in DOMAIN notes : notes[i].state # "Finished"

C10_Witness ==
    /\ out.kind = "Some"
    /\ created > Len(notes)
    /\ notes # <<>>

\* the emitter after every message of q has been handled, the oldest first
RECURSIVE HandleAll(_, _)
HandleAll(e, q) ==
    IF q = <<>> THEN e
    ELSE handle_message(HandleAll(e, SubSeq(q, 1, Len(q) - 1)), q[Len(q)])

\* C11: a call of Emitter::next leaves the inbox empty, and what it returns and
\* leaves behind is computed from the emitter to which every message that was
\* queued has been applied in arrival order; on an empty inbox, whether the
\* Sender is alive or dropped, it handles nothing and still returns.
C11_DrainsInboxInOrder ==
    [][Emitter_next =>
            LET e == HandleAll(Emitter, channel)
            IN  /\ channel' = <<>>
                /\ lastErr' = (IF senderAlive THEN "Empty" ELSE "Disconnected")
                /\ settings' = e.settings
                /\ terminated' = e.terminated
                /\ created' = e.created
                /\ IF e.terminated
                   THEN out' = None /\ notes' = e.notes
                   ELSE \E rnds \in Draws(e.settings, Len(e.notes)) :
                            LET p == step_notes(e.settings, clip, e.notes, rnds)
                            IN  /\ notes' = p.live_notes
                                /\ out' = mix(e.settings, p.samples)
                /\ channel = <<>> =>
                      /\ drained' = <<>>
                      /\ out'.kind = (IF terminated THEN "None" ELSE "Some")
      ]_vars

C11_Witness ==
    /\ drained = <<"NoteOn", "NoteOff">>
    /\ created = 1
    /\ Len(notes) = 1
    /\ notes[1].state = "Released"
    /\ out.kind = "Some"

\* C12: the notes are advanced and the grains are spawned once per frame of
\* the clip's channels: a call of Emitter::next that returns a sample other
\* than the first of its frame, and handles no message, leaves the timers of
\* every note as they were and spawns no grain.
C12_OncePerFrame ==
    [][(Emitter_next /\ channel = <<>> /\ ~terminated /\ phase # 0) =>
          \A i \in DOMAIN notes :
              \E j \in DOMAIN notes' :
                  /\ notes'[j].id = notes[i].id
                  /\ notes'[j].time = notes[i].time
                  /\ notes'[j].since_last_grain = notes[i].since_last_grain
                  /\ Len(notes'[j].grains) <= Len(notes[i].grains)
      ]_vars

\* a range Parameter is meant for: not inverted, and for the logarithmic
\* scale not negative and not of one value
ValidRange(p) ==
    /\ p.min <= p.max
    /\ p.logarithmic => (p.min >= 0 /\ p.max > p.min)

InRange(p) == p.min <= p.value /\ p.value <= p.max

\* equal for an integer; for an f64, within 2 units of the fixed point at the
\* magnitude of the range
Close(p, a, b) ==
    IF p.kind = "i32" THEN a = b
    ELSE Abs(a - b) * F64Unit <= 2 * Max(Abs(p.min), Abs(p.max))

\* C13: on a valid range and a value within it, set_normalized of what
\* get_normalized returns leaves the value as it was (within the tolerance of
\* the arithmetic), on the linear and on the logarithmic scale.
C13_RoundTrip ==
    ( /\ ret.fn = "set_normalized"
      /\ ValidRange(ret.p)
      /\ InRange(ret.p)
      /\ get_normalized(ret.p).ok
      /\ ret.n = get_normalized(ret.p).v )
        => (ret.ok /\ Close(ret.p, param.value, ret.p.value))

\* C14: get_normalized returns a position in [0, 1] whatever value is stored,
\* within the range, on its bounds or outside; it returns on every valid
\* range, and on a range of one value it returns 0.5.
C14_NormalizedInUnitInterval ==
    ret.fn = "get_normalized" =>
        /\ ret.ok => (0 <= ret.val /\ ret.val <= F64Unit)
        /\ ValidRange(ret.p) => ret.ok
        /\ ret.p.min = ret.p.max => (ret.ok /\ ret.val = F64Unit \div 2)

C14_Witness ==
    /\ ret.fn = "get_normalized"
    /\ ret.p.logarithmic
    /\ ValidRange(ret.p)
    /\ ret.p.value > ret.p.max
    /\ ret.val = F64Unit

\* C15: on a valid range, set_normalized(n) leaves a value within the range
\* whatever n is: the minimum itself for n <= 0, the maximum itself for
\* n >= 1.
C15_ValueWithinRange ==
    (ret.fn = "set_normalized" /\ ValidRange(ret.p)) =>
        /\ ret.ok
        /\ InRange(param)
        /\ ret.n <= 0 => param.value = param.min
        /\ ret.n >= F64Unit => param.value = param.max

\* C16: on a logarithmic parameter whose range breaks min >= 0 and max > min,
\* every call of get_normalized and of set_normalized panics.
C16_InvalidLogRangePanics ==
    ( /\ ret.fn \in {"get_normalized", "set_normalized"}
      /\ ret.p.logarithmic
      /\ ~(ret.p.min >= 0 /\ ret.p.max > ret.p.min) )
        => ~ret.ok

\* C17: the ADSR envelope is continuous: it is 1 at the end of the attack,
\* the sustain level at the end of the decay and at the start of the release,
\* 0 at the end of the release and ever after.
C17_AdsrContinuity ==
    /\ ret.fn = "held_amplitude" =>
          /\ ret.t = ret.env.attack => ret.val = Unit
          /\ ret.t = DurAdd(ret.env.attack, ret.env.decay)
                => ret.val = ret.env.sustain_level
    /\ ret.fn = "released_amplitude" =>
          /\ ret.t = DurZero => ret.val = ret.env.sustain_level
          /\ ret.t = ret.env.release => ret.val = 0
          /\ DurGT(ret.t, ret.env.release) => ret.val = 0

\* C18: with an attack, a decay or a release of no duration the three
\* amplitude functions still return a number at every time, and the level
\* jumps: 1 from the start with no attack, the sustain level right after the
\* attack with no decay, 0 from the start with no release.
C18_ZeroDurationsJump ==
    /\ ret.fn \in {"held_amplitude", "released_amplitude", "oneshot_amplitude"} =>
          ret.val # NaN
    /\ ret.fn = "held_amplitude" =>
          /\ (ret.env.attack = DurZero /\ ret.env.decay # DurZero /\ ret.t = DurZero)
                => ret.val = Unit
          /\ (ret.env.decay = DurZero /\ DurGT(ret.t, ret.env.attack))
                => ret.val = ret.env.sustain_level
    /\ (ret.fn = "released_amplitude" /\ ret.env.release = DurZero) => ret.val = 0

\* the plateau of the window: after the eased-in part, before the eased-out
InPlateau(genv, x) ==
    LET b == (genv.skew * genv.amount) \div PosUnit
    IN  /\ 2 * x > genv.amount + b
        /\ 2 * x < 2 * PosUnit - (genv.amount - b)

\* C19: for an amount above 0 and a skew in [-1, 1] the grain window is 0 at
\* progress 0 and at progress 1; it is 1 strictly inside the plateau when the
\* amount is below 1, and everywhere in (0, 1) when the amount is 0; it is 0
\* outside [0, 1].
C19_GrainWindowBoundary ==
    ret.fn = "amplitude_at" =>
        /\ (ret.genv.amount > 0 /\ ret.x \in {0, PosUnit}) => ret.val = 0
        /\ (ret.genv.amount < PosUnit /\ InPlateau(ret.genv, ret.x)) => ret.val = Unit
        /\ (ret.genv.amount = 0 /\ 0 < ret.x /\ ret.x < PosUnit) => ret.val = Unit
        /\ (ret.x < 0 \/ ret.x > PosUnit) => ret.val = 0

\* the time a grain made at the speed given takes per sample
TimePerSample(speed) == DurDivSpeed(duration_per_sample(clip), speed)

\* C20: in Pitch mode a grain plays at the speed 2^((key + transpose - 60)/12):
\* 1 when key + transpose is 60, 2 an octave above, 0.5 an octave below, and
\* twelve semitones more double the speed (they halve the time per sample,
\* within the 0.5 % that the rounding of the speed to 0.001 allows).
C20_PitchMapping ==
    (ret.fn = "make_grain" /\ ret.settings.key_mode = "Pitch") =>
        LET semitones == (ret.key + ret.settings.transpose) - MIDDLE_C
            above == make_grain([ret.settings EXCEPT !.transpose = @ + 12], clip,
                                Note_new(ret.key, ret.settings.note_envelope, 1), 0)
        IN  /\ semitones = 0 => ret.val.duration_per_sample = TimePerSample(PosUnit)
            /\ semitones = 12 => ret.val.duration_per_sample = TimePerSample(2 * PosUnit)
            /\ semitones = 0 - 12
                  => ret.val.duration_per_sample = TimePerSample(PosUnit \div 2)
            /\ 200 * Abs(2 * DurMicros(above.duration_per_sample)
                            - DurMicros(ret.val.duration_per_sample))
                  <= DurMicros(ret.val.duration_per_sample)

C20_Witness ==
    /\ ret.fn = "make_grain"
    /\ ret.settings.key_mode = "Pitch"
    /\ ret.key = 48
    /\ ret.settings.transpose = 12
    /\ ret.val.duration_per_sample = duration_per_sample(clip)

\* the progress of a grain, elapsed / total, in PosUnit
Progress(g) ==
    (DurMicros(g.elapsed_duration) * PosUnit) \div DurMicros(g.total_duration)

\* C21: a grain never reads outside the data of its clip: whatever its start
\* position, length and speed, a sample it returns is the sample of the clip
\* at its cursor, which is below data.len(), and a pull made when the clip has
\* ended before the grain's duration returns nothing and still advances the
\* grain.
C21_GrainReadsInsideClip ==
    ret.fn = "Grain_next" =>
        LET g    == ret.grain
            r    == ret.val
            data == ret.clip.data
            due  == ~DurGE(g.elapsed_duration, g.total_duration)
        IN  /\ g.index >= 0
            /\ r.some =>
                  /\ due
                  /\ g.index < Len(data)
                  /\ r.sample = amplify(amplify(data[g.index + 1], g.amplitude),
                                        amplitude_at(g.envelope, Progress(g)))
            /\ (due /\ g.index >= Len(data)) =>
                  /\ ~r.some
                  /\ r.sample = 0
                  /\ r.grain.elapsed_duration =
                        DurAdd(g.elapsed_duration, g.duration_per_sample)

\* the clip ends under a grain that has read it and has time left
C21_Witness ==
    /\ ret.fn = "Grain_next"
    /\ ret.pulls >= 2
    /\ ret.grain.index = Len(ret.clip.data)
    /\ ~DurGE(ret.grain.elapsed_duration, ret.grain.total_duration)
    /\ ~ret.val.some

Terminates(q) == Cardinality({i \in DOMAIN q : q[i].type = "Terminate"})

\* C22: the load of a file that cannot be opened or decoded gives no clip;
\* a frame of the emitters panel in which the load fails leaves the track
\* name, the waveform and the message sender of the handle as they were,
\* starts no emitter and sends no Terminate to any emitter.
C22_FailedLoadKeepsEmitter ==
    [][\A pick \in Files.name \ Files.decodes :
          /\ load_from_file(pick) = NoClip
          /\ emitters_panel(pick) =>
                /\ handle' = handle
                /\ Len(inboxes') = Len(inboxes)
                /\ \A i \in DOMAIN inboxes :
                      Terminates(inboxes'[i]) = Terminates(inboxes[i])
      ]_vars

\* a load has failed while an emitter was at work
C22_Witness ==
    /\ label # ""
    /\ handle.msg_sender # 0
    /\ handle.track_name \in Files.decodes
    /\ handle.waveform.some
    /\ \A i \in DOMAIN inboxes : Terminates(inboxes[i]) = 0

InRangeSettings(s) ==
    /\ s.density >= 1 /\ s.density <= 100
    /\ s.num_slices >= 1 /\ s.num_slices <= 127
    /\ s.position >= 0 /\ s.position <= PosUnit
    /\ DurGE(s.spray, DurZero)
    /\ DurGE(s.length, DurZero)

\* C23: under settings whose fields are in their ranges, and for the keys 0
\* to 127, every call of Emitter::next that is not ended by a Terminate
\* returns a sample: it never panics.
C23_StepYieldsSample ==
    (Polled /\ ~terminated /\ InRangeSettings(settings)) => out.kind = "Some"

\* C24: in a production step a note that stays in the pool gets exactly one
\* new grain if its since_last_grain, advanced by the duration of the step,
\* has reached 1 / density, and none otherwise; a spawn sets since_last_grain
\* back to zero, so the next spawn of the note comes after at least 1 / density
\* of accumulated time.
C24_SpawnRule ==
    [][Emitter_next =>
          LET r == drain_inbox(Emitter, channel, senderAlive)
          IN  ~r.e.terminated =>
                \A i \in DOMAIN r.e.notes, j \in DOMAIN notes' :
                    LET n     == r.e.notes[i]
                        since == DurAdd(n.since_last_grain, duration_per_sample(clip))
                        due   == DurGE(since, grain_interval(settings'))
                    IN  notes'[j].id = n.id =>
                          /\ notes'[j].spawned = n.spawned + (IF due THEN 1 ELSE 0)
                          /\ notes'[j].since_last_grain = (IF due THEN DurZero ELSE since)
      ]_vars

\* a note has made a second grain, and its timer runs again
C24_Witness ==
    \E i \in DOMAIN notes :
        /\ notes[i].spawned >= 2
        /\ DurGT(notes[i].since_last_grain, DurZero)

InPool(g, grains) == \E k \in DOMAIN grains : grains[k] = g

\* the grain after a pull that found it short of its total duration
Pulled(g) ==
    [g EXCEPT !.index = g.index + 1,
              !.elapsed_duration = DurAdd(g.elapsed_duration, g.duration_per_sample)]

\* C25: a production step removes a grain from the pool of its note if and
\* only if the grain's elapsed_duration had reached its total_duration: a
\* grain short of its total duration is pulled and stays, also when the clip
\* has no sample left for it, and every grain left in the pool was short of
\* its total duration when it was pulled.
C25_GrainLeavesWhenElapsed ==
    [][Emitter_next =>
          LET r == drain_inbox(Emitter, channel, senderAlive)
          IN  ~r.e.terminated =>
                \A i \in DOMAIN r.e.notes, j \in DOMAIN notes' :
                    notes'[j].id = r.e.notes[i].id =>
                        /\ \A k \in DOMAIN r.e.notes[i].grains :
                              LET g == r.e.notes[i].grains[k]
                              IN  ~DurGE(g.elapsed_duration, g.total_duration)
                                      => InPool(Pulled(g), notes'[j].grains)
                        /\ \A k \in DOMAIN notes'[j].grains :
                              LET g == notes'[j].grains[k]
                              IN  /\ DurGE(g.elapsed_duration, g.duration_per_sample)
                                  /\ ~DurGE(DurSub(g.elapsed_duration,
                                                   g.duration_per_sample),
                                            g.total_duration)
      ]_vars

\* C26: without spray a grain made in Pitch mode starts at the position of
\* the settings whatever the key; a grain made in Slice mode with n slices for
\* a note of key k starts at (k mod n) / n, which is in [0, 1) and is the start
\* of one of the n slices of equal width.
C26_StartPosition ==
    (ret.fn = "make_grain" /\ ret.settings.spray = DurZero) =>
        LET start == ret.val.start_position
            n     == ret.settings.num_slices
            k     == ret.key
        IN  /\ ~ret.panicked
            /\ ret.settings.key_mode = "Pitch" => start = ret.settings.position
            /\ ret.settings.key_mode = "Slice" =>
                  /\ start >= 0 /\ start < PosUnit
                  \* start = (k mod n) / n, rounded down to 1 / PosUnit
                  /\ start * n <= (k % n) * PosUnit
                  /\ (k % n) * PosUnit < (start + 1) * n
                  /\ \E m \in 0 .. n - 1 : start = (m * PosUnit) \div n

\* key 55 of three slices: the second slice
C26_Witness ==
    /\ ret.fn = "make_grain"
    /\ ret.settings.spray = DurZero
    /\ ret.settings.key_mode = "Slice"
    /\ ret.settings.num_slices = 3
    /\ ret.key = 55
    /\ ret.val.start_position = PosUnit \div 3

\* the position of a grain of the last call before the spray, as the
\* start-position rule gives it
Unperturbed ==
    IF ret.settings.key_mode = "Pitch"
    THEN ret.settings.position
    ELSE ((ret.key % ret.settings.num_slices) * PosUnit) \div ret.settings.num_slices

\* C27: with a positive spray every start position a grain is given is in
\* [0, 1] and in [max(pos - r/2, 0), min(pos + r/2, 1)], pos being the
\* position before the spray and r the spray over the duration of the clip
\* (within 0.01, the rounding of the arithmetic); without spray the start
\* position is pos itself.
C27_SprayWithinRange ==
    (ret.fn = "make_grain" /\ ~ret.panicked) =>
        LET start == ret.val.start_position
            pos   == Unperturbed
            half  == (DurMicros(ret.settings.spray) * PosUnit)
                         \div (2 * DurMicros(total_duration(clip)))
            tol   == PosUnit \div 100
        IN  IF DurGT(ret.settings.spray, DurZero)
            THEN /\ start >= 0 /\ start <= PosUnit
                 /\ start >= Max(pos - half, 0) - tol
                 /\ start <= Min(pos + half, PosUnit) + tol
            ELSE start = pos

\* a spray of half the clip around its end: the draw from the middle of
\* [0.75, 1)
C27_Witness ==
    /\ ret.fn = "make_grain"
    /\ ~ret.panicked
    /\ ret.settings.key_mode = "Pitch"
    /\ ret.settings.position = PosUnit
    /\ ret.settings.spray = DurMillis(10)
    /\ ret.rnd = PosUnit \div 2
    /\ ret.val.start_position > (3 * PosUnit) \div 4
    /\ ret.val.start_position < PosUnit

\* C28: in Slice mode the speed of a grain is 2^(transpose / 12) whatever the
\* key: under the same settings and the same draw, the grains of two notes of
\* different keys differ in nothing but their start.
C28_SliceSpeedIgnoresKey ==
    (ret.fn = "make_grain" /\ ret.settings.key_mode = "Slice") =>
        LET speed == interval_to_ratio(ret.settings.transpose)
        IN  /\ ret.val.duration_per_sample = TimePerSample(speed)
            /\ ret.val.total_duration = DurDivSpeed(ret.settings.length, speed)
            /\ ret.settings.transpose = 0
                  => ret.val.duration_per_sample = duration_per_sample(clip)
            /\ \A key \in PitchKeys :
                  LET other == make_grain(ret.settings, clip,
                                          Note_new(key, ret.settings.note_envelope, 1),
                                          ret.rnd)
                  IN  [other EXCEPT !.start_position = ret.val.start_position,
                                    !.index = ret.val.index] = ret.val

\* key 55 transposed an octave up, in the second of three slices: twice the
\* speed, whatever the key
C28_Witness ==
    /\ ret.fn = "make_grain"
    /\ ret.settings.key_mode = "Slice"
    /\ ret.settings.num_slices = 3
    /\ ret.settings.transpose = 12
    /\ ret.key = 55
    /\ ret.val.start_position > 0
    /\ ret.val.duration_per_sample = TimePerSample(2 * PosUnit)

\* C29: the sample a step returns is the amplitude of the settings applied to
\* the limited sum, amplitude * tanh(sum of the notes' samples), so its
\* magnitude is at most the amplitude (steps whose sum is not a number aside).
C29_GainAfterLimiter ==
    [][Emitter_next =>
          LET r == drain_inbox(Emitter, channel, senderAlive)
              p == step_notes(r.e.settings, clip, r.e.notes,
                              [i \in 1 .. Len(r.e.notes) |-> 0])
          IN  (out'.kind = "Some" /\ out'.v # NaN /\ p.samples # <<>>) =>
                  /\ out'.v = amplify(tanh(reduce_add(p.samples)), settings'.amplitude)
                  /\ Abs(out'.v) <= settings'.amplitude
      ]_vars

\* the grain g of the pool before the pull that left it there
Unpulled(g) ==
    [g EXCEPT !.index = g.index - 1,
              !.elapsed_duration = DurSub(g.elapsed_duration, g.duration_per_sample)]

\* the amplitude of the note n by the envelope it carries
OwnAmplitude(n) ==
    IF n.state = "Held" THEN held_amplitude(n.envelope, n.time)
    ELSE released_amplitude(n.envelope, n.time)

\* C30: a note keeps the envelope of the settings in force when its NoteOn
\* was handled: handling a NoteOn gives the new note the note envelope of the
\* settings of that moment, no message and no step changes the envelope of a
\* note of the pool, a Released note leaves the pool in the step that brings
\* its timer to the release time of its own envelope, and the sample of a step
\* with one note is made with the amplitude its own envelope gives, whatever
\* the settings have become.
C30_EnvelopeFixedAtTrigger ==
    [][/\ \A i \in DOMAIN notes, j \in DOMAIN notes' :
              notes'[j].id = notes[i].id => notes'[j].envelope = notes[i].envelope
       /\ \A m \in DOMAIN channel :
              LET pre  == AfterHandling(m - 1)
                  post == AfterHandling(m)
              IN  /\ \A i \in DOMAIN pre.notes :
                        post.notes[i].envelope = pre.notes[i].envelope
                  /\ channel[m].type = "NoteOn" =>
                        post.notes[Len(post.notes)].envelope = pre.settings.note_envelope
       /\ Emitter_next =>
              LET r == drain_inbox(Emitter, channel, senderAlive)
              IN  ~r.e.terminated =>
                    \A i \in DOMAIN r.e.notes :
                        LET n == r.e.notes[i]
                            t == DurAdd(n.time, duration_per_sample(clip))
                        IN  n.state = "Released" =>
                              ((\E j \in DOMAIN notes' : notes'[j].id = n.id)
                                  <=> ~DurGE(t, n.envelope.release))
       /\ (Emitter_next /\ out'.kind = "Some" /\ Len(notes') = 1) =>
              LET n == notes'[1]
                  samples == [k \in DOMAIN n.grains |->
                                 Grain_next(clip, Unpulled(n.grains[k])).sample]
              IN  n.grains # <<>> =>
                    out'.v = tanh(amplify(amplify(reduce_add(samples), OwnAmplitude(n)),
                                          settings'.amplitude))
      ]_vars

\* a Released note outlives the release time of the settings that came after
\* its NoteOn
C30_Witness ==
    \E i \in DOMAIN notes :
        /\ notes[i].state = "Released"
        /\ notes[i].envelope # settings.note_envelope
        /\ DurGT(notes[i].time, settings.note_envelope.release)
        /\ notes[i].grains # <<>>
        /\ Len(notes) = 1
        /\ out.kind = "Some"

\* the places of the Settings messages in flight
SettingsInFlight == {j \in DOMAIN channel : channel[j].type = "Settings"}

Last(S) == CHOOSE j \in S : \A k \in S : k <= j

\* C31: a Settings message replaces the settings of the emitter as a whole:
\* once it is handled the settings are the snapshot of the message, field for
\* field, and the note pool, with the grains in it, is as it was; a call of
\* Emitter::next that receives several of them leaves the snapshot of the
\* last one in force, and leaves the settings alone when it receives none.
C31_SettingsReplaced ==
    [][/\ \A j \in SettingsInFlight :
              LET pre  == AfterHandling(j - 1)
                  post == AfterHandling(j)
              IN  /\ post.settings = channel[j].settings
                  /\ \A f \in DOMAIN post.settings :
                        post.settings[f] = channel[j].settings[f]
                  /\ post.notes = pre.notes
                  /\ post.terminated = pre.terminated
                  /\ post.created = pre.created
       /\ Emitter_next =>
              settings' = IF SettingsInFlight = {} THEN settings
                          ELSE channel[Last(SettingsInFlight)].settings
      ]_vars

\* two snapshots were received in one call, the second is in force, and a
\* note made before them still has a grain
C31_Witness ==
    /\ drained = <<"Settings", "Settings">>
    /\ settings = SettingsSlice
    /\ out.kind = "Some"
    /\ \E i \in DOMAIN notes :
          /\ notes[i].grains # <<>>
          /\ notes[i].envelope = AdsrEnvelope_default

\* the parameters of the MIDI CC table's entries of the controller c
MappedTo(c) ==
    {handle.params.midi_cc_map[e].param :
        e \in {k \in DOMAIN handle.params.midi_cc_map :
                  handle.params.midi_cc_map[k].cc = c}}

\* C32: while an emitter is at work, the MIDI callback called with a
\* Controller message of controller c and value v sets every parameter that an
\* entry of the MIDI CC table gives to c, however many entries c has, to the
\* position v / 127; it leaves the table and every other parameter as they
\* were, and sends the emitter one Params message, the parameters as they
\* are then.
C32_ControllerAppliesEveryMapping ==
    [][\A c \in ControllerValues, v \in MidiValues :
          handle_midi_msg(MidiController(c, v)) =>
              LET old == handle.params
                  new == handle'.params
              IN  /\ new.midi_cc_map = old.midi_cc_map
                  /\ \A control \in DOMAIN ControlParam :
                        new[ControlParam[control]] =
                            IF control \in MappedTo(c)
                            THEN set_normalized(old[ControlParam[control]],
                                                norm_value(v)).v
                            ELSE old[ControlParam[control]]
                  /\ handle' = [handle EXCEPT !.params = new]
                  /\ inboxes' = [inboxes EXCEPT ![handle.msg_sender] =
                                    Append(@, ParamsMessage(new))]
      ]_vars

\* controller 7 moves the position and the transposition, which are at the
\* upper ends of their ranges; the emitter has been sent the parameters
C32_Witness ==
    /\ handle.params.midi_cc_map = << [cc |-> 7, param |-> "Position"],
                                      [cc |-> 7, param |-> "Transpose"] >>
    /\ handle.params.position.value = F64Unit
    /\ handle.params.transpose.value = 12
    /\ handle.params.density = ParamDensity
    /\ handle.msg_sender # 0
    /\ inboxes[handle.msg_sender] = <<ParamsMessage(handle.params)>>

\* the Released note n reaches its release time in a step on the clip c
Finishing(n, c) ==
    /\ n.state = "Released"
    /\ DurGE(DurAdd(n.time, duration_per_sample(c)), n.envelope.release)

\* the notes of ns that do not
RECURSIVE NotFinishing(_, _)
NotFinishing(ns, c) ==
    IF ns = <<>> THEN <<>>
    ELSE IF Finishing(Head(ns), c) THEN NotFinishing(Tail(ns), c)
    ELSE <<Head(ns)>> \o NotFinishing(Tail(ns), c)

\* C33: in the production step in which a note becomes Finished the note
\* gets no new grain, also when one is due, none of its grains is pulled and
\* the step gives no sample for it; the note leaves the pool with the grains
\* it had, and the step returns what it would have returned without the note.
C33_FinishedNoteIsSilent ==
    [][Emitter_next =>
          LET e == drain_inbox(Emitter, channel, senderAlive).e
          IN  ~e.terminated =>
                /\ \A i \in DOMAIN e.notes :
                      Finishing(e.notes[i], clip) =>
                          /\ \A j \in DOMAIN notes' : notes'[j].id # e.notes[i].id
                          /\ \A rnd \in RandValues :
                                LET s == note_step(e.settings, clip, e.notes[i], rnd)
                                IN  /\ ~s.live /\ ~s.some /\ ~s.panicked
                                    /\ s.note.grains = e.notes[i].grains
                                    /\ s.note.spawned = e.notes[i].spawned
                /\ \E rnds \in Draws(e.settings, Len(NotFinishing(e.notes, clip))) :
                      LET p == step_notes(e.settings, clip,
                                          NotFinishing(e.notes, clip), rnds)
                      IN  ~p.panicked =>
                              /\ notes' = p.live_notes
                              /\ out' = mix(e.settings, p.samples)
      ]_vars

\* a note of no release time was made and released in one call: it finished
\* in its first step, in which a grain was due
C33_Witness ==
    /\ drained = <<"NoteOn", "NoteOff">>
    /\ settings = SettingsSlice
    /\ created = 1
    /\ notes = <<>>
    /\ out = Some(0)

\* C34: on a range with min < max, linear or logarithmic, the mapping goes
\* one way: of two values the greater has the greater or the same position,
\* and of two positions the greater makes set_normalized store the greater or
\* the same value (calls that panic aside).
C34_MappingMonotonic ==
    /\ (ret.fn = "get_normalized" /\ ret.ok /\ ret.p.min < ret.p.max) =>
          \A v \in StoredValues(ret.p) :
              LET other == get_normalized([ret.p EXCEPT !.value = v])
              IN  (other.ok /\ ret.p.value <= v) => ret.val <= other.v
    /\ (ret.fn = "set_normalized" /\ ret.ok /\ ret.p.min < ret.p.max) =>
          \A n \in NormValues :
              LET other == set_normalized(ret.p, n)
              IN  (other.ok /\ ret.n <= n) => ret.val <= other.v.value

\* x / y rounded up, for x >= 0 and y > 0
CeilDiv(x, y) == (x + y - 1) \div y

\* C35: a grain comes to its end: a pull never takes elapsed_duration back;
\* a pull that finds it short of the total duration T adds the duration per
\* sample d to it, whether there was a sample to read or not; so with d > 0
\* the first ceil(T / d) pulls bring it to T or beyond, and every pull after
\* them returns nothing and leaves the grain as it is. A grain of no length
\* returns nothing from its first pull on.
C35_GrainTerminates ==
    ret.fn = "Grain_next" =>
        LET g      == ret.grain
            after  == ret.val.grain
            d      == g.duration_per_sample
            T      == g.total_duration
            before == ret.pulls - 1
            most   == CeilDiv(DurMicros(T), DurMicros(d))
        IN  /\ DurGE(after.elapsed_duration, g.elapsed_duration)
            /\ ~DurGE(g.elapsed_duration, T) =>
                  after.elapsed_duration = DurAdd(g.elapsed_duration, d)
            /\ DurGE(g.elapsed_duration, T) => (~ret.val.some /\ after = g)
            /\ DurGT(d, DurZero) =>
                  /\ g.elapsed_duration = DurTimes(d, Min(before, most))
                  /\ before >= most => (~ret.val.some /\ after = g)
            /\ T = DurZero => ~ret.val.some

\* a grain of the length of one sample, at its second pull: it is at its end
\* with the clip not yet at its own
C35_Witness ==
    /\ ret.fn = "Grain_next"
    /\ ret.pulls = 2
    /\ DurGT(ret.grain.total_duration, DurZero)
    /\ ret.grain.elapsed_duration = ret.grain.total_duration
    /\ ret.grain.index < Len(ret.clip.data)
    /\ ~ret.val.some

\* C36: the call of Emitter::next that handles the NoteOn of a note is the
\* first step of the note, and in it the note gets its first grain, at any
\* density from 1 to 100, unless the step finishes the note: when the call
\* returns, a note made in it is out of the pool or has had one grain made for
\* it and its timer set back to zero, and no note of the pool is without a
\* grain made for it.
C36_FirstGrainInFirstStep ==
    [][(Emitter_next /\ out'.kind = "Some") =>
          LET e == drain_inbox(Emitter, channel, senderAlive).e
          IN  /\ \A i \in DOMAIN e.notes :
                    e.notes[i].id > created =>
                        IF Finishing(e.notes[i], clip)
                        THEN \A j \in DOMAIN notes' : notes'[j].id # e.notes[i].id
                        ELSE \E j \in DOMAIN notes' :
                                /\ notes'[j].id = e.notes[i].id
                                /\ notes'[j].spawned = 1
                                /\ notes'[j].since_last_grain = DurZero
              /\ \A j \in DOMAIN notes' : notes'[j].spawned >= 1
      ]_vars

\* at one grain a second, a note after its first step
C36_Witness ==
    /\ out.kind = "Some"
    /\ settings.density = 1
    /\ \E i \in DOMAIN drained : drained[i] = "NoteOn"
    /\ \E i \in DOMAIN notes :
          /\ notes[i].id = created
          /\ notes[i].time = duration_per_sample(clip)
          /\ notes[i].spawned = 1
          /\ notes[i].grains # <<>>

\* ceil(length x density), the length in seconds
GrainsPerLength(s) == CeilDiv(DurMicros(s.length) * s.density, 1000000)

NoteOnsInFlight == {j \in DOMAIN channel : channel[j].type = "NoteOn"}

\* the note messages for key k in the channel
About(k) ==
    {j \in DOMAIN channel : /\ channel[j].type \in {"NoteOn", "NoteOff"}
                            /\ channel[j].key = k}

\* C38: every NoteOn adds a note of its own to the pool, whatever notes of the
\* key are there already, and leaves the notes of the pool as they are, each
\* with its elapsed time and its grains; a NoteOff releases every note of its
\* key.
C38_SameKeyNotesIndependent ==
    [][Emitter_next =>
          LET e == drain_inbox(Emitter, channel, senderAlive).e
          IN  /\ Len(e.notes) = Len(notes) + Cardinality(NoteOnsInFlight)
              /\ \A i, j \in DOMAIN e.notes : i # j => e.notes[i].id # e.notes[j].id
              /\ \A i \in DOMAIN notes :
                    /\ e.notes[i].id = notes[i].id
                    /\ e.notes[i].grains = notes[i].grains
                    /\ (\A j \in About(notes[i].key) : channel[j].type = "NoteOn")
                          => e.notes[i] = notes[i]
              /\ \A k \in Keys :
                    (About(k) # {} /\ channel[Last(About(k))].type = "NoteOff") =>
                        /\ \A i \in DOMAIN e.notes :
                              e.notes[i].key = k =>
                                  /\ e.notes[i].state = "Released"
                                  /\ e.notes[i].time = DurZero
                        /\ \A i \in DOMAIN notes' :
                              notes'[i].key = k => notes'[i].state = "Released"
    ]_vars

\* two notes of one key, made in different steps, released by one NoteOff
C38_Witness ==
    /\ Cardinality({d \in DOMAIN drained : drained[d] = "NoteOff"}) = 1
    /\ \E i, j \in DOMAIN notes :
          /\ i < j
          /\ notes[i].key = notes[j].key
          /\ notes[i].id # notes[j].id
          /\ notes[i].state = "Released"
          /\ notes[j].state = "Released"
          /\ notes[i].time = notes[j].time
          /\ notes[i].grains # notes[j].grains

\* C39: a grain made at a start position in [0, 1] on a clip of C channels
\* and F frames has its cursor at floor(F x start position) x C: on the
\* first sample of a frame, at F x C at most, and at F x C, where the clip
\* has no sample, when the start position is 1.
C39_GrainStartIndex ==
    (ret.fn = "Grain_new" /\ ret.grain.start_position \in 0..PosUnit) =>
        LET g == ret.grain
            C == ret.clip.channels
            F == Len(ret.clip.data) \div C
        IN  /\ g.index = ((F * g.start_position) \div PosUnit) * C
            /\ g.index % C = 0
            /\ g.index <= F * C
            /\ g.start_position = PosUnit =>
                  ~GrainInner_next(ret.clip, g).some

DurNanos(d) == d.secs * NANOS_PER_SEC + d.nanos

\* C40: the duration of a sample is floor(10^9 / (sample_rate x channels))
\* nanoseconds, more than zero while sample_rate x channels is 10^9 at most;
\* a note updated in sample_rate x channels steps in a row has gained that
\* many durations: one second at most, and less than sample_rate x channels
\* nanoseconds short of it.
C40_SampleDuration ==
    ret.fn = "Note_update" =>
        LET n  == ret.clip.sample_rate * ret.clip.channels
            ns == DurNanos(ret.delta)
        IN  /\ ns * n <= NANOS_PER_SEC
            /\ NANOS_PER_SEC - ns * n < n
            /\ n <= NANOS_PER_SEC => ns > 0
            /\ ret.val.time = DurTimes(ret.delta, ret.steps)
            /\ ret.steps = n =>
                  /\ DurLE(ret.val.time, Dur(1, 0))
                  /\ NANOS_PER_SEC - DurNanos(ret.val.time) < n

\* seven steps at seven samples a second: 6 ns short of a second
C40_Witness ==
    /\ ret.fn = "Note_update"
    /\ ret.clip.sample_rate * ret.clip.channels = 7
    /\ ret.steps = 7
    /\ ret.val.state = "Held"
    /\ DurNanos(ret.val.time) = NANOS_PER_SEC - 6

====
